---- MODULE Spec2Model ----
(***************************************************************************)
(* Quest-file binary subsystem of phantasmal-world: the QST container      *)
(* codec (writeQst / parseQst) and the quest layer built on it             *)
(* (parse_quest / write_quest_qst).                                        *)
(*                                                                         *)
(* Representation.  A byte buffer is kept in blocks of Grain bytes, each   *)
(* block carrying one symbol (0 is the all-zero block), so that a          *)
(* 1024-byte chunk payload is two blocks; all sizes of the model are       *)
(* multiples of Grain.  Strings are sequences of character codes.          *)
(* The QST buffer is kept as its 88-byte header records followed by its    *)
(* 1056-byte chunk records, every field of a record holding what the       *)
(* writer's write_* call leaves in it.  Payload sizes stay far below 2^32, *)
(* so a 4-byte size field holds the size itself.                           *)
(***************************************************************************)
EXTENDS Integers, Sequences, FiniteSets, TLC

\* ------------------------------------------------------------ constants
HeaderSize == 88
ChunkRecordSize == 1056
ChunkDataSize == 1024
NameFieldLen == 16
Name2FieldLen == 24
U8Range == 256
U16Range == 65536
MarkerBB0 == 88
MarkerBB2 == 68
MarkerDC == 68
HeaderMagic == 68
MarkerDCDownload == 166

Grain == ChunkDataSize \div 2
CellsPerChunk == ChunkDataSize \div Grain

\* an absent optional number (questNo, expectedSize) and an absent name2
Undef == -1
NoName == << -1 >>

\* ------------------------------------------------------------ bounds
\* longest raw chunk stream drawn by Init
MaxRecs == 3
\* number of distinct payload patterns
MaxSeed == 2

\* ------------------------------------------------------------ helpers
Max(a, b) == IF a >= b THEN a ELSE b
Min(a, b) == IF a <= b THEN a ELSE b
CeilDiv(a, b) == (a + b - 1) \div b

\* a string of n copies of character c
Rep(c, n) == [i \in 1..n |-> c]

\* String.lastIndexOf(c), 0-based, -1 when absent
LastIndexOf(s, c) ==
    IF \E i \in 1..Len(s) : s[i] = c
    THEN (CHOOSE i \in 1..Len(s) : s[i] = c /\ \A j \in (i+1)..Len(s) : s[j] # c) - 1
    ELSE -1

\* String.slice(a, b) with 0 <= a <= b
Slice(s, a, b) == SubSeq(s, a + 1, Min(b, Len(s)))

\* BufferCursor.write_string_ascii(str, byte_length): the character codes,
\* padded with zero bytes
write_string_ascii(str, n) == [i \in 1..n |-> IF i <= Len(str) THEN str[i] % U8Range ELSE 0]

\* BufferCursor.string_ascii(n, null_terminated = true, drop_remaining = true)
string_ascii(bytes) ==
    LET stop == IF \E i \in 1..Len(bytes) : bytes[i] = 0
                THEN CHOOSE i \in 1..Len(bytes) : bytes[i] = 0 /\ \A j \in 1..(i-1) : bytes[j] # 0
                ELSE Len(bytes) + 1
    IN SubSeq(bytes, 1, stop - 1)

\* the block of an input payload at block index j (0-based): payloads are
\* drawn as a pattern of period 3 shifted by their seed
DataCell(seed, j) == (j + seed) % 3

\* the blocks [from, from + n) of an input payload
TakeCells(seed, from, n) == [k \in 1..n |-> DataCell(seed, from + k - 1)]

\* ------------------------------------------------------------ state
VARIABLES
    pc,        \* position of the run
    params,    \* WriteQstParams.files: name, name2, questNo, data (size, seed, pos)
    out,       \* writeQst's cursor: the records written so far
    totalSize, \* writeQst's predicted size
    hi,        \* writeFileHeaders: index of the file whose header is next
    wq,        \* writeFileChunks: files (indices into params) still to write
    wnos,      \* writeFileChunks: chunkNos
    wi,        \* writeFileChunks: i (1-based)
    err,       \* the error thrown, "" when none
    inp,       \* parseQst's input buffer
    ppos,      \* parseFiles: index of the next chunk record
    version,   \* parseQst: detected version
    headers,   \* parseHeaders' result
    files,     \* parseFiles' map, in insertion order
    warns,     \* warnings logged
    touched    \* parseQst: what it has read beyond the marker bytes

cvars == <<pc, params, out, totalSize, hi, wq, wnos, wi, err,
           inp, ppos, version, headers, files, warns, touched>>
wvars == <<params, out, totalSize, hi, wq, wnos, wi>>
pvars == <<inp, ppos, version, headers, files, warns, touched>>

\* the quest layer (parse_quest / write_quest_qst)
VARIABLES
    qpc,       \* position of the run
    archive,   \* the contained files parse_qst returned
    file_name, \* the file name given to write_quest_qst
    quest,     \* the Quest parse_quest returned last, NoQuest when none
    first,     \* the Quest that was encoded
    qlog,      \* errors and warnings logged by the last parse_quest
    opened,    \* the contained files the last parse_quest decompressed
    entry      \* the entry points the last parse_quest gave to parse_bin

qvars == <<qpc, archive, file_name, quest, first, qlog, opened, entry>>

\* one NPC on its way through get_npc_type and npcs_to_dat_data
VARIABLES
    npc_pc,      \* position of the run
    npc_episode, \* the episode the NPC is decoded under
    dat_npc,     \* the DatNpc at hand
    quest_npc,   \* the QuestNpc at hand
    quest_npc_first  \* the QuestNpc first decoded

nvars == <<npc_pc, npc_episode, dat_npc, quest_npc, quest_npc_first>>

\* a script on its way through assemble and disassemble
VARIABLES
    asm_pc,      \* position of the run
    asm_lines,   \* the lines given to assemble
    asm_code,    \* object_code of the last assemble
    asm_errors,  \* errors of the last assemble
    asm_text,    \* the lines disassemble returned
    asm_first    \* object_code of the first assemble

avars == <<asm_pc, asm_lines, asm_code, asm_errors, asm_text, asm_first>>

\* what the caller of writeQst keeps: the archives earlier calls returned
VARIABLES returned

\* the cursor of parseQst or writeQst on its way through a buffer, one
\* cursor operation at a time
VARIABLES
    byte_pc,          \* the function the cursor is in
    byte_input,       \* the buffer read, or the payload sizes of the files written
    cursor_position,  \* cursor.position
    record_start,     \* the position the record at hand starts at (startPosition)
    byte_iter,        \* the loop counter: records read, or the index i
    byte_ops,         \* the cursor operations left in the iteration at hand
    data_left,        \* data.bytes_left of the files still written
    accessed,         \* the fields read or written, with their offsets
    byte_warns        \* the warnings logged

bvars == <<byte_pc, byte_input, cursor_position, record_start, byte_iter, byte_ops,
           data_left, accessed, byte_warns>>

\* an observable quest entity of the quest editor
VARIABLES
    entity,     \* its section and its section-relative position
    last_call   \* the operation called last, with its arguments

evars == <<entity, last_call>>

\* the QuestEditorComponents React has mounted, and their layouts
VARIABLES
    components, \* per component: its phase, its timer callback, its ref, this.layout
    layouts     \* the GoldenLayout instances created, in order

gvars == <<components, layouts>>

\* the layers that stand alone
apart == <<bvars, evars, gvars>>

vars == <<cvars, qvars, nvars, avars, returned, apart>>

\* what the container codec leaves alone, what the quest layer does, what
\* the run of one NPC does, and what the assembler does
outsideQst == <<qvars, nvars, avars, returned, apart>>
outsideQuest == <<cvars, nvars, avars, returned, apart>>
outsideNpc == <<cvars, qvars, avars, returned, apart>>
outsideAsm == <<cvars, qvars, nvars, returned, apart>>
outsideBytes == <<cvars, qvars, nvars, avars, returned, evars, gvars>>
outsideEntity == <<cvars, qvars, nvars, avars, returned, bvars, gvars>>
outsideComponents == <<cvars, qvars, nvars, avars, returned, bvars, evars>>

\* no cursor on its way
BytesIdle ==
    /\ byte_pc = "idle"
    /\ byte_input = [total |-> 0, declared |-> << >>, sizes |-> << >>]
    /\ cursor_position = 0
    /\ record_start = 0
    /\ byte_iter = 0
    /\ byte_ops = << >>
    /\ data_left = << >>
    /\ accessed = {}
    /\ byte_warns = << >>

\* no section: the section of an entity that has none
NoSection == [id |-> -1, position |-> <<0, 0, 0>>, sin_y_axis_rotation |-> 0, cos_y_axis_rotation |-> 1]

\* no entity made
EntityIdle ==
    /\ entity = [section |-> NoSection, position |-> <<0, 0, 0>>]
    /\ last_call = [op |-> "idle", world_position |-> <<0, 0, 0>>, section |-> NoSection]

\* no component mounted
ComponentsIdle ==
    /\ components = << >>
    /\ layouts = << >>

\* the layers that stand alone, at rest
ApartIdle == BytesIdle /\ EntityIdle /\ ComponentsIdle

\* no script on its way
AsmIdle ==
    /\ asm_pc = "idle"
    /\ asm_lines = << >>
    /\ asm_code = << >>
    /\ asm_errors = << >>
    /\ asm_text = << >>
    /\ asm_first = << >>

\* no DatNpc and no QuestNpc
NoNpcData ==
    [ type_id |-> -1, roaming |-> 0, area_id |-> 0, scale_y |-> 0, script_label_x2 |-> 0, rest |-> 0 ]

NoNpc ==
    [ type |-> "", area_id |-> 0, scale_y |-> 0, rest |-> 0, pso_type_id |-> -1,
      script_label |-> 0, roaming |-> 0 ]

\* no NPC on its way, in runs of the container codec and of the quest layer
NpcIdle ==
    /\ npc_pc = "idle"
    /\ npc_episode = 0
    /\ dat_npc = NoNpcData
    /\ quest_npc = NoNpc
    /\ quest_npc_first = NoNpc

\* no Quest: what parse_quest returns when it gives up
NoQuest ==
    [ id |-> -1, episode |-> 0, objects |-> << >>, npcs |-> << >>, dat_unknowns |-> << >>,
      object_code |-> << >>, map_designations |-> {} ]

\* the quest layer at rest, in runs of the container codec
QuestIdle ==
    /\ qpc = "idle"
    /\ archive = << >>
    /\ file_name = << >>
    /\ quest = NoQuest
    /\ first = NoQuest
    /\ qlog = << >>
    /\ opened = {}
    /\ entry = << >>

\* size in bytes of the records of a buffer
BufSize(b) == HeaderSize * Len(b.hdrs) + ChunkRecordSize * Len(b.chunks)

EmptyBuf == [hdrs |-> << >>, chunks |-> << >>]

\* ------------------------------------------------------------ writeQst
\* 88 + Math.ceil(f.data.size / 1024) * 1056
PredictedFileSize(f) == HeaderSize + CeilDiv(f.size, ChunkDataSize) * ChunkRecordSize

RECURSIVE SumPredicted(_)
SumPredicted(fs) ==
    IF fs = << >> THEN 0 ELSE PredictedFileSize(Head(fs)) + SumPredicted(Tail(fs))

\* the secondary name written to a header
FileName2(f) ==
    IF f.name2 = NoName
    THEN LET dotPos == LastIndexOf(f.name, 46)
         IN IF dotPos = -1
            THEN f.name \o <<95, 106>>
            ELSE Slice(f.name, 0, dotPos) \o <<95, 106>> \o Slice(f.name, dotPos, Len(f.name))
    ELSE f.name2

\* mutant: a name that exactly fills the field is refused
NameTooLong_OffByOne(f) == Len(f.name) >= NameFieldLen

NameTooLong(f) == Len(f.name) > NameFieldLen
FileName2TooLong(f) == Len(FileName2(f)) > Name2FieldLen

\* the 88 bytes writeFileHeaders emits for a file
HeaderRecord(f) ==
    [ w0      |-> HeaderSize % U16Range,
      w2      |-> HeaderMagic % U16Range,
      questNo |-> (IF f.questNo = Undef THEN 0 ELSE f.questNo) % U16Range,
      name    |-> write_string_ascii(f.name, NameFieldLen),
      size    |-> f.size,
      name2   |-> write_string_ascii(FileName2(f), Name2FieldLen) ]

\* bytes left in a file's data cursor
BytesLeft(f) == f.size - f.pos

\* Math.min(1024, data.bytes_left)
ChunkTakeSize(f) == Min(ChunkDataSize, BytesLeft(f))

\* mutant: chunk numbers counted from 1 (++chunkNos[i] for chunkNos[i]++)
ChunkNoByte_FromOne(chunkNo) == (chunkNo + 1) % U8Range

\* the value write_u8(chunkNo) leaves in the chunk-index byte
ChunkNoByte(chunkNo) == chunkNo % U8Range

\* the 1056 bytes writeFileChunk emits
ChunkRecord(f, chunkNo) ==
    LET size == ChunkTakeSize(f)
        n    == size \div Grain
        data == TakeCells(f.seed, f.pos \div Grain, n)
    IN [ no    |-> ChunkNoByte(chunkNo),
         name  |-> write_string_ascii(f.name, NameFieldLen),
         cells |-> [k \in 1..CellsPerChunk |-> IF k <= n THEN data[k] ELSE 0],
         size  |-> size ]

\* the sequence s without its i-th element (Array.splice(i, 1))
Splice(s, i) == SubSeq(s, 1, i - 1) \o SubSeq(s, i + 1, Len(s))

WriteStart ==
    /\ pc = "wstart"
    /\ totalSize' = SumPredicted(params)
    /\ out' = EmptyBuf
    /\ hi' = 1
    /\ pc' = "whdr"
    /\ UNCHANGED <<params, wq, wnos, wi, err>>
    /\ UNCHANGED pvars
    /\ UNCHANGED outsideQst

\* one iteration of the loop of writeFileHeaders
WriteFileHeader ==
    /\ pc = "whdr"
    /\ LET f == params[hi] IN
       IF NameTooLong(f)
       THEN /\ err' = "NameTooLong"
            /\ pc' = "werr"
            /\ UNCHANGED <<out, hi, wq, wnos, wi>>
       ELSE IF FileName2TooLong(f)
       THEN /\ err' = "FileName2TooLong"
            /\ pc' = "werr"
            /\ UNCHANGED <<out, hi, wq, wnos, wi>>
       ELSE /\ out' = [out EXCEPT !.hdrs = Append(@, HeaderRecord(f))]
            /\ hi' = hi + 1
            /\ err' = err
            /\ IF hi = Len(params)
               THEN /\ pc' = "wchunk"
                    /\ wq' = [i \in 1..Len(params) |-> i]
                    /\ wnos' = [i \in 1..Len(params) |-> 0]
                    /\ wi' = 1
               ELSE /\ pc' = "whdr"
                    /\ UNCHANGED <<wq, wnos, wi>>
    /\ UNCHANGED <<params, totalSize>>
    /\ UNCHANGED pvars
    /\ UNCHANGED outsideQst

\* one call of writeFileChunk from the loops of writeFileChunks
WriteFileChunk ==
    /\ pc = "wchunk"
    /\ LET fi   == wq[wi]
           f    == params[fi]
           size == ChunkTakeSize(f)
           more == BytesLeft(f) - size > 0
           q2   == IF more THEN wq ELSE Splice(wq, wi)
           n2   == IF more THEN [wnos EXCEPT ![wi] = @ + 1] ELSE Splice(wnos, wi)
           i2   == IF more THEN wi + 1 ELSE wi
       IN /\ out' = [out EXCEPT !.chunks = Append(@, ChunkRecord(f, wnos[wi]))]
          /\ params' = [params EXCEPT ![fi].pos = @ + size]
          /\ wq' = q2
          /\ wnos' = n2
          /\ wi' = IF i2 > Len(q2) THEN 1 ELSE i2
          /\ pc' = IF q2 = << >> THEN "wcheck" ELSE "wchunk"
    /\ UNCHANGED <<totalSize, hi, err>>
    /\ UNCHANGED pvars
    /\ UNCHANGED outsideQst

\* the final size check of writeQst
SizeMismatch == BufSize(out) # totalSize

WriteCheck ==
    /\ pc = "wcheck"
    /\ IF SizeMismatch
       THEN /\ err' = "SizeMismatch"
            /\ pc' = "werr"
       ELSE /\ err' = err
            /\ pc' = "wdone"
    /\ UNCHANGED wvars
    /\ UNCHANGED pvars
    /\ UNCHANGED outsideQst

\* ------------------------------------------------------------ parseQst
\* the bytes at offsets 0 and 2 of the buffer (little-endian u16 fields)
VersionA(b) == b.hdrs[1].w0 % U8Range
VersionB(b) == b.hdrs[1].w2 % U8Range

\* mutant: the byte at offset 2 is not looked at
DetectedVersion_IgnoreB(b) ==
    IF VersionA(b) = MarkerDC THEN "Dreamcast/GameCube"
    ELSE IF VersionA(b) = MarkerBB0 THEN "Blue Burst"
    ELSE IF VersionA(b) = MarkerDCDownload THEN "Dreamcast download"
    ELSE "PC"

DetectedVersion(b) ==
    IF VersionA(b) = MarkerDC THEN "Dreamcast/GameCube"
    ELSE IF VersionA(b) = MarkerBB0
         THEN (IF VersionB(b) = MarkerBB2 THEN "Blue Burst" ELSE "PC")
    ELSE IF VersionA(b) = MarkerDCDownload THEN "Dreamcast download"
    ELSE "PC"

\* parseHeaders: the two 88-byte header records
ParsedHeader(h) ==
    [ questNo   |-> h.questNo,
      fileName  |-> string_ascii(h.name),
      fileName2 |-> string_ascii(h.name2),
      size      |-> h.size ]

\* new Map(headers.map(h => [h.fileName, h.size])).get(fileName)
ExpectedSize(hs, fileName) ==
    IF \E i \in 1..Len(hs) : hs[i].fileName = fileName
    THEN hs[CHOOSE i \in 1..Len(hs) :
              hs[i].fileName = fileName /\ \A j \in (i+1)..Len(hs) : hs[j].fileName # fileName].size
    ELSE Undef

\* index of the file called name in the map, 0 when absent
FileIndex(fs, name) ==
    IF \E i \in 1..Len(fs) : fs[i].name = name
    THEN CHOOSE i \in 1..Len(fs) : fs[i].name = name
    ELSE 0

Warning(kind, name, no) == [kind |-> kind, name |-> name, no |-> no]

\* mutant: bytes already in the buffer are kept, a later chunk only fills
\* what lies past them
PlaceCells_KeepFirst(cells, newLen, at, data) ==
    [k \in 1..newLen |->
        IF k <= Len(cells) THEN cells[k]
        ELSE IF k - 1 >= at /\ k - 1 < at + Len(data) THEN data[k - at]
        ELSE 0]

\* data.seek_start(at * Grain).write_cursor(data) on a buffer already resized
\* to newLen blocks; blocks never written are zero
PlaceCells(cells, newLen, at, data) ==
    [k \in 1..newLen |->
        IF k - 1 >= at /\ k - 1 < at + Len(data) THEN data[k - at]
        ELSE IF k <= Len(cells) THEN cells[k]
        ELSE 0]

\* mutant: every chunk written at the start of its file (the seek left out)
ChunkPosition_Start(chunkNo) == 0

\* where a chunk is placed in its file
ChunkPosition(chunkNo) == chunkNo * ChunkDataSize

\* the number of payload bytes read from a chunk record
ClampedSize(size) == IF size > ChunkDataSize THEN ChunkDataSize ELSE size

\* mutant: the size follows the last chunk read, not the furthest one
DataSize_LastChunk(at, size, old) == at + size

\* file.data.size = Math.max(chunkPosition + size, file.data.size)
DataSize(at, size, old) == Max(at + size, old)

\* the set of observed chunk numbers after a record with number no
ObservedAfter(chunkNos, no) == chunkNos \cup {no}

\* one iteration of the loop of parseFiles, on the map and the log
ParseChunkStep(st, hs, rec) ==
    LET fileName == string_ascii(rec.name)
        found    == FileIndex(st.files, fileName)
        fs1      == IF found = 0
                    THEN Append(st.files,
                                [ name         |-> fileName,
                                  expectedSize |-> ExpectedSize(hs, fileName),
                                  size         |-> 0,
                                  cells        |-> << >>,
                                  chunkNos     |-> {},
                                  questNo      |-> Undef,
                                  name2        |-> NoName ])
                    ELSE st.files
        idx      == IF found = 0 THEN Len(fs1) ELSE found
        file     == fs1[idx]
        dup      == rec.no \in file.chunkNos
        w1       == IF dup THEN Append(st.warns, Warning("duplicate", fileName, rec.no))
                    ELSE st.warns
        w2       == IF rec.size > ChunkDataSize
                    THEN Append(w1, Warning("clamped", fileName, rec.no))
                    ELSE w1
        size     == ClampedSize(rec.size)
        data     == SubSeq(rec.cells, 1, size \div Grain)
        newSize  == DataSize(ChunkPosition(rec.no), size, file.size)
        file2    == [file EXCEPT
                        !.chunkNos = ObservedAfter(@, rec.no),
                        !.size     = newSize,
                        !.cells    = PlaceCells(@, newSize \div Grain,
                                                ChunkPosition(rec.no) \div Grain, data)]
    IN [files |-> [fs1 EXCEPT ![idx] = file2], warns |-> w2]

\* mutant: the expected size left out of the chunk count
ActualSize_AssembledOnly(file) == file.size

\* Math.max(file.data.size, file.expectedSize || 0)
ActualSize(file) == Max(file.size, IF file.expectedSize = Undef THEN 0 ELSE file.expectedSize)

\* the number of chunks a file is required to have
RequiredChunks(file) == CeilDiv(ActualSize(file), ChunkDataSize)

\* the required chunk numbers no record of the file carried
MissingChunks(file) == { c \in 0..(RequiredChunks(file) - 1) : c \notin file.chunkNos }

\* for (chunkNo = 0; chunkNo < Math.ceil(actualSize / 1024); ++chunkNo): one
\* warning per missing chunk, in ascending order
MissingWarnings(file) ==
    LET m == MissingChunks(file)
    IN [k \in 1..Cardinality(m) |->
          Warning("missing", file.name,
                  CHOOSE c \in m : Cardinality({ d \in m : d < c }) = k - 1)]

SizeWarning(file) ==
    IF file.expectedSize # Undef /\ file.size # file.expectedSize
    THEN << Warning("size", file.name, file.size) >>
    ELSE << >>

RECURSIVE FinalWarnings(_)
FinalWarnings(fs) ==
    IF fs = << >> THEN << >>
    ELSE SizeWarning(Head(fs)) \o MissingWarnings(Head(fs)) \o FinalWarnings(Tail(fs))

\* parseQst's loop attaching questNo and name2 from the header of the same name
WithHeader(file, hs) ==
    IF \E i \in 1..Len(hs) : hs[i].fileName = file.name
    THEN LET h == hs[CHOOSE i \in 1..Len(hs) :
                       hs[i].fileName = file.name /\ \A j \in 1..(i-1) : hs[j].fileName # file.name]
         IN [file EXCEPT !.questNo = h.questNo, !.name2 = h.fileName2]
    ELSE file

\* the version detection of parseQst and the branch on it
DetectVersion ==
    /\ pc = "pdetect"
    /\ version' = DetectedVersion(inp)
    /\ pc' = IF DetectedVersion(inp) = "Blue Burst" THEN "phdr" ELSE "pfail"
    /\ UNCHANGED <<inp, ppos, headers, files, warns, touched>>
    /\ UNCHANGED wvars
    /\ UNCHANGED err
    /\ UNCHANGED outsideQst

ParseHeaders ==
    /\ pc = "phdr"
    /\ headers' = [i \in 1..2 |-> ParsedHeader(inp.hdrs[i])]
    /\ touched' = touched \cup {"headers"}
    /\ ppos' = 1
    /\ pc' = "pchunk"
    /\ UNCHANGED <<inp, version, files, warns>>
    /\ UNCHANGED wvars
    /\ UNCHANGED err
    /\ UNCHANGED outsideQst

\* while (cursor.bytes_left >= 1056): one chunk record
ParseChunk ==
    /\ pc = "pchunk"
    /\ ppos <= Len(inp.chunks)
    /\ LET st == ParseChunkStep([files |-> files, warns |-> warns], headers, inp.chunks[ppos])
       IN /\ files' = st.files
          /\ warns' = st.warns
    /\ ppos' = ppos + 1
    /\ touched' = touched \cup {"chunks"}
    /\ UNCHANGED <<inp, version, headers, pc>>
    /\ UNCHANGED wvars
    /\ UNCHANGED err
    /\ UNCHANGED outsideQst

\* the end of parseFiles and of parseQst
ParseFinish ==
    /\ pc = "pchunk"
    /\ ppos > Len(inp.chunks)
    /\ warns' = warns
                \o (IF inp.tail # 0 THEN << Warning("left", << >>, inp.tail) >> ELSE << >>)
                \o FinalWarnings(files)
    /\ files' = [i \in 1..Len(files) |-> WithHeader(files[i], headers)]
    /\ pc' = "pdone"
    /\ UNCHANGED <<inp, ppos, version, headers, touched>>
    /\ UNCHANGED wvars
    /\ UNCHANGED err
    /\ UNCHANGED outsideQst

\* the caller hands the archive writeQst returned to parseQst
Reparse ==
    /\ pc = "wdone"
    /\ Len(params) = 2
    /\ inp' = [hdrs |-> out.hdrs, chunks |-> out.chunks, tail |-> 0]
    /\ pc' = "pdetect"
    /\ UNCHANGED <<ppos, version, headers, files, warns, touched>>
    /\ UNCHANGED wvars
    /\ UNCHANGED err
    /\ UNCHANGED outsideQst

\* ------------------------------------------------------------ inputs
\* "q.dat", "q.bin", "x"
NameDat == <<113, 46, 100, 97, 116>>
NameBin == <<113, 46, 98, 105, 110>>
NameOther == <<120>>

\* a name of n characters, ending in ".dat" when dotted
NameOfLen(n, dotted) == IF dotted THEN Rep(97, n - 4) \o <<46, 100, 97, 116>> ELSE Rep(97, n)

File(name, name2, questNo, size, seed) ==
    [name |-> name, name2 |-> name2, questNo |-> questNo, size |-> size, seed |-> seed, pos |-> 0]

Seeds == 0..(MaxSeed - 1)
SmallSizes == {0, Grain, ChunkDataSize, ChunkDataSize + Grain, 2 * ChunkDataSize}
QuestNos == {Undef, 7, U16Range - 1}

\* two files, as write_quest_qst passes them
GeneralPairs ==
    { << File(NameDat, NoName, q, s1, d1), File(NameBin, NoName, q, s2, d2) >> :
        q \in QuestNos, s1 \in SmallSizes, d1 \in Seeds, s2 \in SmallSizes, d2 \in Seeds }

\* payloads at and past the range of the one-byte chunk index, names that
\* fill their field, files sharing a name, one file and three files
SpecialLists ==
    { << File(NameDat, NoName, 7, U8Range * ChunkDataSize, 0), File(NameBin, NoName, 7, Grain, 1) >>,
      << File(NameDat, NoName, 7, U8Range * ChunkDataSize + Grain, 0), File(NameBin, NoName, 7, Grain, 1) >>,
      << File(NameOfLen(NameFieldLen, TRUE), NoName, 7, ChunkDataSize + Grain, 0),
         File(NameOfLen(NameFieldLen, FALSE), Rep(98, Name2FieldLen), 8, Grain, 1) >>,
      << File(NameDat, NoName, 7, ChunkDataSize, 0), File(NameDat, NoName, 7, ChunkDataSize, 1) >>,
      << File(NameDat, NoName, 7, 2 * ChunkDataSize, 0) >>,
      << File(NameDat, NoName, 7, ChunkDataSize, 0), File(NameBin, NoName, 7, 3 * ChunkDataSize, 1),
         File(NameOther, NoName, 7, Grain, 0) >> }

\* files whose name or secondary name is at, below or above the field length
NameLists ==
    { << File(NameOfLen(n, dotted), name2, 7, Grain, 0) >> :
        n \in {4, NameFieldLen, NameFieldLen + 1}, dotted \in BOOLEAN,
        name2 \in {NoName, << >>, Rep(98, Name2FieldLen), Rep(98, Name2FieldLen + 1)} }
    \cup
    { << File(NameDat, NoName, 7, Grain, 0), File(NameOfLen(n, TRUE), name2, 7, Grain, 0) >> :
        n \in {NameFieldLen, NameFieldLen + 1},
        name2 \in {NoName, Rep(98, Name2FieldLen + 1)} }

WriterInputs == GeneralPairs \cup SpecialLists \cup NameLists

RawHeader(w0, w2, name, size) ==
    [ w0 |-> w0, w2 |-> w2, questNo |-> 7,
      name  |-> write_string_ascii(name, NameFieldLen),
      size  |-> size,
      name2 |-> write_string_ascii(<< >>, Name2FieldLen) ]

Rec(name, no, size, cells) ==
    [no |-> no, name |-> write_string_ascii(name, NameFieldLen), cells |-> cells, size |-> size]

\* chunk records a stream is drawn from: full, short, empty and oversized
\* payloads, repeated indices with different bytes, a name no header declares
RecSet ==
    { Rec(NameDat, no, ChunkDataSize, <<1, 2>>) : no \in {0, 1, 2} }
    \cup { Rec(NameDat, no, Grain, <<2, 1>>) : no \in {0, 1} }
    \cup { Rec(NameDat, 0, 4 * ChunkDataSize, <<2, 2>>),
           Rec(NameDat, 2, 0, <<1, 1>>),
           Rec(NameBin, 0, ChunkDataSize, <<1, 1>>),
           Rec(NameOther, 1, Grain, <<2, 2>>) }

RECURSIVE Streams(_)
Streams(n) ==
    IF n = 0 THEN { << >> }
    ELSE LET shorter == Streams(n - 1)
         IN shorter \cup { Append(s, r) : s \in { t \in shorter : Len(t) = n - 1 }, r \in RecSet }

RawInput(h1, h2, chunks, tail) == [hdrs |-> <<h1, h2>>, chunks |-> chunks, tail |-> tail]

GeneralStreams ==
    { RawInput(RawHeader(MarkerBB0, MarkerBB2, NameDat, size),
               RawHeader(MarkerBB0, MarkerBB2, NameBin, ChunkDataSize), chunks, 0) :
        size \in {ChunkDataSize, 3 * ChunkDataSize}, chunks \in Streams(MaxRecs) }

\* buffers with other marker bytes at offsets 0 and 2
MarkerStreams ==
    { RawInput(RawHeader(w0, w2, NameDat, ChunkDataSize),
               RawHeader(MarkerBB0, MarkerBB2, NameBin, ChunkDataSize),
               << Rec(NameDat, 0, ChunkDataSize, <<1, 2>>) >>, 0) :
        w0 \in {MarkerBB0, MarkerDC, MarkerDCDownload, 0, MarkerBB0 + U8Range},
        w2 \in {MarkerBB2, 0, MarkerBB0, MarkerBB2 + U8Range} }

\* a file of five chunks whose chunk 2 was removed from the archive
FiveChunkStreams ==
    { RawInput(RawHeader(MarkerBB0, MarkerBB2, NameDat, 5 * ChunkDataSize),
               RawHeader(MarkerBB0, MarkerBB2, NameBin, ChunkDataSize),
               << Rec(NameDat, 0, ChunkDataSize, <<1, 2>>), Rec(NameBin, 0, ChunkDataSize, <<1, 1>>),
                  Rec(NameDat, 1, ChunkDataSize, <<0, 1>>), Rec(NameDat, 3, ChunkDataSize, <<2, 0>>),
                  Rec(NameDat, 4, last, <<1, 2>>) >>, tail) :
        last \in {Grain, ChunkDataSize}, tail \in {0, Grain} }

RawInputs == GeneralStreams \cup MarkerStreams \cup FiveChunkStreams

EmptyInput == [hdrs |-> << >>, chunks |-> << >>, tail |-> 0]

\* ------------------------------------------------------------ specification
InitWriter ==
    /\ pc = "wstart"
    /\ params \in WriterInputs
    /\ inp = EmptyInput

InitParser ==
    /\ pc = "pdetect"
    /\ params = << >>
    /\ inp \in RawInputs

ContainerStart ==
    /\ out = EmptyBuf
    /\ totalSize = 0
    /\ hi = 0
    /\ wq = << >>
    /\ wnos = << >>
    /\ wi = 0
    /\ err = ""
    /\ ppos = 0
    /\ version = ""
    /\ headers = << >>
    /\ files = << >>
    /\ warns = << >>
    /\ touched = {}

\* the container codec at rest, in runs of the other layers
ContainerIdle ==
    /\ pc = "idle"
    /\ returned = << >>
    /\ params = << >>
    /\ inp = EmptyInput
    /\ ContainerStart

Init ==
    /\ (InitWriter \/ InitParser)
    /\ ContainerStart
    /\ returned = << >>
    /\ QuestIdle
    /\ NpcIdle
    /\ AsmIdle
    /\ ApartIdle

Next ==
    \/ WriteStart
    \/ WriteFileHeader
    \/ WriteFileChunk
    \/ WriteCheck
    \/ Reparse
    \/ DetectVersion
    \/ ParseHeaders
    \/ ParseChunk
    \/ ParseFinish

Spec == Init /\ [][Next]_vars

\* ------------------------------------------------------------ properties
\* the run encodes a file list (rather than decoding a drawn buffer)
WriterRun == params # << >>

\* the blocks of an input file's whole payload
PayloadCells(f) == TakeCells(f.seed, 0, f.size \div Grain)

\* the byte at offset 0 and at offset 2 of the buffer being decoded
InputByte0 == inp.hdrs[1].w0 % U8Range
InputByte2 == inp.hdrs[1].w2 % U8Range

\* the warnings of one kind logged so far
WarningsOfKind(kind) == { i \in 1..Len(warns) : warns[i].kind = kind }

\* C2's premise: two files, distinct names of at most 16 characters, each
\* with a non-empty payload of at most 256 chunks
C2_Pre ==
    /\ Len(params) = 2
    /\ params[1].name # params[2].name
    /\ \A i \in 1..2 :
        /\ Len(params[i].name) <= NameFieldLen
        /\ Len(FileName2(params[i])) <= Name2FieldLen
        /\ params[i].size > 0
        /\ CeilDiv(params[i].size, ChunkDataSize) <= U8Range

RECURSIVE ParseAll(_, _, _)
ParseAll(st, hs, chunks) ==
    IF chunks = << >> THEN st
    ELSE ParseAll(ParseChunkStep(st, hs, Head(chunks)), hs, Tail(chunks))

\* the reconstructed payload of every file name
Payloads(fs) == { <<fs[i].name, fs[i].size, fs[i].cells>> : i \in 1..Len(fs) }

ArrivalOrders(n) == { p \in [1..n -> 1..n] : \A i, j \in 1..n : p[i] = p[j] => i = j }

\* decoding every permutation of the chunk records gives the payloads decoded
OrderIndependent ==
    \A p \in ArrivalOrders(Len(inp.chunks)) :
        Payloads(ParseAll([files |-> << >>, warns |-> << >>], headers,
                          [i \in 1..Len(inp.chunks) |-> inp.chunks[p[i]]]).files)
            = Payloads(files)

\* no two chunk records of the stream carry the same file name and index
NoRepeatedIndex ==
    \A i, j \in 1..Len(inp.chunks) :
        (inp.chunks[i].name = inp.chunks[j].name /\ inp.chunks[i].no = inp.chunks[j].no) => i = j

\* C3 as written: for any chunk stream, decoding any permutation of its
\* chunk records yields the same payload for every file name.
C3_AnyStream == (pc = "pdone" /\ ~WriterRun) => OrderIndependent

\* C3 amended: for any chunk stream in which no two records carry the same
\* file name and chunk index, decoding any permutation of its chunk records
\* yields the same payload for every file name.
C3_OrderIndependent == (pc = "pdone" /\ ~WriterRun /\ NoRepeatedIndex) => OrderIndependent

\* C3 witness: chunks of one file arrived out of index order, around a chunk
\* of another file
C3_Witness ==
    /\ pc = "pdone"
    /\ ~WriterRun
    /\ NoRepeatedIndex
    /\ Len(inp.chunks) >= 3
    /\ inp.chunks[1].name = inp.chunks[3].name
    /\ inp.chunks[1].name # inp.chunks[2].name
    /\ inp.chunks[1].no > inp.chunks[3].no

\* ---- C4
\* indices of the chunk records carrying a file name
RecordsOf(name) == { i \in 1..Len(inp.chunks) : string_ascii(inp.chunks[i].name) = name }

\* the bytes actually written to a file: the highest end of any of its chunks
AssembledSize(name) ==
    LET ends == { inp.chunks[i].no * ChunkDataSize + Min(inp.chunks[i].size, ChunkDataSize) :
                    i \in RecordsOf(name) }
    IN CHOOSE e \in ends : \A o \in ends : o <= e

\* the expected size the headers declare for a file name, 0 when none does
DeclaredSize(name) ==
    LET hs == { i \in 1..2 : string_ascii(inp.hdrs[i].name) = name }
    IN IF hs = {} THEN 0
       ELSE inp.hdrs[CHOOSE i \in hs : \A j \in hs : j <= i].size

\* C4: after all chunk records are consumed the decode returns the archive,
\* one file per name seen, and the missing-chunk warnings name, for each
\* file, exactly the indices below ceil(max(assembled, expected) / 1024)
\* that no record of the file carried.
C4_MissingChunks ==
    /\ (inp.hdrs # << >> /\ InputByte0 = MarkerBB0 /\ InputByte2 = MarkerBB2) => pc # "pfail"
    /\ pc = "pdone" =>
        /\ { files[i].name : i \in 1..Len(files) }
              = { string_ascii(inp.chunks[i].name) : i \in 1..Len(inp.chunks) }
        /\ \A i \in 1..Len(files) :
            LET name  == files[i].name
                count == CeilDiv(Max(AssembledSize(name), DeclaredSize(name)), ChunkDataSize)
                seen  == { inp.chunks[k].no : k \in RecordsOf(name) }
            IN { warns[w].no : w \in { v \in WarningsOfKind("missing") : warns[v].name = name } }
                  = { c \in 0..(count - 1) : c \notin seen }
        /\ \A w \in WarningsOfKind("missing") : \E i \in 1..Len(files) : files[i].name = warns[w].name

\* C4 witness: a five-chunk file lost its chunk 2; the decode ended with two
\* files and one missing-chunk warning, naming chunk 2
C4_Witness ==
    /\ pc = "pdone"
    /\ Len(files) = 2
    /\ files[1].expectedSize = 5 * ChunkDataSize
    /\ files[1].chunkNos = {0, 1, 3, 4}
    /\ { <<warns[w].name, warns[w].no>> : w \in WarningsOfKind("missing") } = { <<NameDat, 2>> }

\* ---- C5
\* the chunk record about to be read repeats the file name and index of an
\* earlier record of the stream
NextIsRepeat ==
    /\ pc = "pchunk"
    /\ ppos <= Len(inp.chunks)
    /\ \E j \in 1..(ppos - 1) :
        /\ inp.chunks[j].name = inp.chunks[ppos].name
        /\ inp.chunks[j].no = inp.chunks[ppos].no

\* what reading a repeated record does to the file it names
RepeatOverwrites ==
    LET rec  == inp.chunks[ppos]
        name == string_ascii(rec.name)
        n    == Min(rec.size, ChunkDataSize) \div Grain
        at   == (rec.no * ChunkDataSize) \div Grain
        i    == CHOOSE k \in 1..Len(files) : files[k].name = name
    IN /\ pc' = "pchunk"
       /\ Len(files') = Len(files)
       /\ files'[i].name = name
       /\ \A k \in 1..n : files'[i].cells[at + k] = rec.cells[k]
       /\ \A k \in 1..Len(files[i].cells) :
            (k <= at \/ k > at + n) => files'[i].cells[k] = files[i].cells[k]
       /\ files'[i].chunkNos = files[i].chunkNos
       /\ Len(warns') > Len(warns)
       /\ warns'[Len(warns) + 1] = Warning("duplicate", name, rec.no)
       /\ \A k \in 1..Len(warns) : warns'[k] = warns[k]

\* C5: a chunk record whose (file name, chunk index) pair was already seen
\* overwrites the bytes placed at index*1024 by the earlier record, logs a
\* warning, leaves the file's set of observed chunk indices unchanged, and
\* the decode goes on.
C5_DuplicateOverwrites == [][NextIsRepeat => RepeatOverwrites]_vars

\* C5 witness: a decode has ended after a repeated record replaced the two
\* blocks <<1, 2>> of chunk 0 by a shorter payload
C5_Witness ==
    /\ pc = "pdone"
    /\ Len(inp.chunks) = 2
    /\ inp.chunks[1] = Rec(NameDat, 0, ChunkDataSize, <<1, 2>>)
    /\ inp.chunks[2] = Rec(NameDat, 0, Grain, <<2, 1>>)
    /\ files[1].cells = <<2, 2>>
    /\ files[1].chunkNos = {0}
    /\ WarningsOfKind("duplicate") # {}

\* ---- C6
\* C6: parseQst reads headers and chunks only when the byte at offset 0 is
\* 0x58 and the byte at offset 2 is 0x44; for every other pair of marker
\* bytes it fails, having parsed no header and no chunk.
C6_FormatDetection ==
    (inp.hdrs # << >> /\ pc # "pdetect") =>
        IF InputByte0 = 88 /\ InputByte2 = 68
        THEN pc \in {"phdr", "pchunk", "pdone"}
        ELSE pc = "pfail" /\ touched = {} /\ headers = << >> /\ files = << >> /\ ppos = 0

\* C6 witness: a buffer starting 0x58 whose byte at offset 2 is not 0x44 was
\* refused
C6_Witness == pc = "pfail" /\ InputByte0 = 88 /\ InputByte2 # 68 /\ version = "PC"

\* ---- C7
\* C7 as written: the bytes the encoder emits equal the sum over the files
\* of 88 + ceil(payload_size/1024)*1056, for every payload size including 0,
\* and the size-mismatch error is raised exactly when the two differ.
C7_EmittedIsPredicted ==
    /\ pc = "wcheck" =>
         BufSize(out) = SumPredicted([i \in 1..Len(params) |-> [size |-> params[i].size]])
    /\ err = "SizeMismatch" => BufSize(out) # totalSize
    /\ pc = "wdone" => BufSize(out) = totalSize

\* ---- C8
\* the length of the secondary name of a file: the name2 given, or the name
\* with "_j" inserted
SecondaryLen(f) == IF f.name2 = NoName THEN Len(f.name) + 2 ELSE Len(f.name2)

SomeNameTooLong ==
    \E i \in 1..Len(params) :
        Len(params[i].name) > 16 \/ SecondaryLen(params[i]) > 24

\* C8: writeQst fails with a name-length error if some file's name is longer
\* than 16 characters or its secondary name is longer than 24 characters,
\* and with no name-length error otherwise.
C8_NameLength ==
    (WriterRun /\ pc \notin {"wstart", "whdr"}) =>
        /\ SomeNameTooLong => (pc = "werr" /\ err \in {"NameTooLong", "FileName2TooLong"})
        /\ ~SomeNameTooLong => err \notin {"NameTooLong", "FileName2TooLong"}

\* C8 witness: a file whose 16-character name fits was refused for its
\* 25-character secondary name
C8_Witness ==
    /\ pc = "werr"
    /\ err = "FileName2TooLong"
    /\ \E i \in 1..Len(params) : Len(params[i].name) = 16 /\ Len(params[i].name2) = 25

\* ============================================================ quest layer
\* Episode.I, Episode.II, Episode.IV
EpisodeI == 1
EpisodeII == 2
EpisodeIV == 4

\* A float32 is kept as its bit pattern (big-endian uint32 of DataView);
\* the model draws non-negative finite values only.
F32One == 1065353216
RegularBit == 8388608

\* Math.abs(y - 1) <= 0.00001 for the float32 of these bits: the 167 values
\* below 1.0 and the 83 above it that lie within 0.00001 of it
NearOne(bits) == bits >= F32One - 167 /\ bits <= F32One + 83

\* the comparison without its margin (a variant)
IsRegular_ExactlyOne(bits) == bits # F32One

\* const regular = Math.abs(scale.y - 1) > 0.00001
IsRegular(bits) == ~NearOne(bits)

\* a remainder that is never negative (a variant)
JsRem_Floored(a, b) == a % b

\* the remainder operator of the language: the sign of the dividend
JsRem(a, b) == IF a >= 0 THEN a % b ELSE -((-a) % b)

\* Math.round of a number given in halves
RoundHalves(h) == (h + 1) \div 2

\* switch (`${type_id}, ${roaming % 3}, ${episode}`): the identity of the matching case, "" when no case matches
NpcTypeByRoaming3(episode, npc, regular) ==
    LET key == <<npc.type_id, JsRem(npc.roaming, 3), episode>> IN
    CASE key = <<68, 0, 1>> -> "Booma"
      [] key = <<68, 1, 1>> -> "Gobooma"
      [] key = <<68, 2, 1>> -> "Gigobooma"
      [] key = <<99, 0, 1>> -> "EvilShark"
      [] key = <<99, 1, 1>> -> "PalShark"
      [] key = <<99, 2, 1>> -> "GuilShark"
      [] key = <<166, 0, 1>> -> "Dimenian"
      [] key = <<166, 0, 2>> -> "Dimenian2"
      [] key = <<166, 1, 1>> -> "LaDimenian"
      [] key = <<166, 1, 2>> -> "LaDimenian2"
      [] key = <<166, 2, 1>> -> "SoDimenian"
      [] key = <<166, 2, 2>> -> "SoDimenian2"
      [] key = <<214, 0, 2>> -> "Mericarol"
      [] key = <<214, 1, 2>> -> "Mericus"
      [] key = <<214, 2, 2>> -> "Merikle"
      [] key = <<277, 0, 4>> -> "Boota"
      [] key = <<277, 1, 4>> -> "ZeBoota"
      [] key = <<277, 2, 4>> -> "BaBoota"
      [] key = <<279, 0, 4>> -> "Goran"
      [] key = <<279, 1, 4>> -> "PyroGoran"
      [] key = <<279, 2, 4>> -> "GoranDetonator"
      [] OTHER -> ""

\* switch (`${type_id}, ${roaming % 2}, ${episode}`): the identity of the matching case, "" when no case matches
NpcTypeByRoaming2(episode, npc, regular) ==
    LET key == <<npc.type_id, JsRem(npc.roaming, 2), episode>> IN
    CASE key = <<64, 0, 1>> -> "Hildebear"
      [] key = <<64, 0, 2>> -> "Hildebear2"
      [] key = <<64, 1, 1>> -> "Hildeblue"
      [] key = <<64, 1, 2>> -> "Hildeblue2"
      [] key = <<65, 0, 1>> -> "RagRappy"
      [] key = <<65, 0, 2>> -> "RagRappy2"
      [] key = <<65, 0, 4>> -> "SandRappy"
      [] key = <<65, 1, 1>> -> "AlRappy"
      [] key = <<65, 1, 2>> -> "LoveRappy"
      [] key = <<65, 1, 4>> -> "DelRappy"
      [] key = <<128, 0, 1>> -> "Dubchic"
      [] key = <<128, 0, 2>> -> "Dubchic2"
      [] key = <<128, 1, 1>> -> "Gilchic"
      [] key = <<128, 1, 2>> -> "Gilchic2"
      [] key = <<212, 0, 2>> -> "SinowBerill"
      [] key = <<212, 1, 2>> -> "SinowSpigell"
      [] key = <<213, 0, 2>> -> "Merillia"
      [] key = <<213, 1, 2>> -> "Meriltas"
      [] key = <<215, 0, 2>> -> "UlGibbon"
      [] key = <<215, 1, 2>> -> "ZolGibbon"
      [] key = <<221, 0, 2>> -> "Dolmolm"
      [] key = <<221, 1, 2>> -> "Dolmdarl"
      [] key = <<224, 0, 2>> -> (IF npc.area_id > 15 THEN "Epsilon" ELSE "SinowZoa")
      [] key = <<224, 1, 2>> -> (IF npc.area_id > 15 THEN "Epsilon" ELSE "SinowZele")
      [] key = <<274, 0, 4>> -> "MerissaA"
      [] key = <<274, 1, 4>> -> "MerissaAA"
      [] key = <<276, 0, 4>> -> "Zu"
      [] key = <<276, 1, 4>> -> "Pazuzu"
      [] key = <<278, 0, 4>> -> "Dorphon"
      [] key = <<278, 1, 4>> -> "DorphonEclair"
      [] key = <<281, 0, 4>> -> (IF regular THEN "SaintMilion" ELSE "Kondrieu")
      [] key = <<281, 1, 4>> -> (IF regular THEN "Shambertin" ELSE "Kondrieu")
      [] OTHER -> ""

\* switch (`${type_id}, ${episode}`): the identity of the matching case, "" when no case matches
NpcTypeByEpisode(episode, npc, regular) ==
    LET key == <<npc.type_id, episode>> IN
    CASE key = <<66, 1>> -> "Monest"
      [] key = <<66, 2>> -> "Monest2"
      [] key = <<67, 1>> -> (IF regular THEN "SavageWolf" ELSE "BarbarousWolf")
      [] key = <<67, 2>> -> (IF regular THEN "SavageWolf2" ELSE "BarbarousWolf2")
      [] key = <<96, 1>> -> "GrassAssassin"
      [] key = <<96, 2>> -> "GrassAssassin2"
      [] key = <<97, 1>> -> (IF npc.area_id > 15 THEN "DelLily" ELSE (IF regular THEN "PoisonLily" ELSE "NarLily"))
      [] key = <<97, 2>> -> (IF npc.area_id > 15 THEN "DelLily" ELSE (IF regular THEN "PoisonLily2" ELSE "NarLily2"))
      [] key = <<98, 1>> -> "NanoDragon"
      [] key = <<100, 1>> -> (IF regular THEN "PofuillySlime" ELSE "PouillySlime")
      [] key = <<101, 1>> -> "PanArms"
      [] key = <<101, 2>> -> "PanArms2"
      [] key = <<129, 1>> -> "Garanz"
      [] key = <<129, 2>> -> "Garanz2"
      [] key = <<130, 1>> -> (IF regular THEN "SinowBeat" ELSE "SinowGold")
      [] key = <<131, 1>> -> "Canadine"
      [] key = <<132, 1>> -> "Canane"
      [] key = <<133, 1>> -> "Dubswitch"
      [] key = <<133, 2>> -> "Dubswitch2"
      [] key = <<160, 1>> -> "Delsaber"
      [] key = <<160, 2>> -> "Delsaber2"
      [] key = <<161, 1>> -> "ChaosSorcerer"
      [] key = <<161, 2>> -> "ChaosSorcerer2"
      [] key = <<162, 1>> -> "DarkGunner"
      [] key = <<164, 1>> -> "ChaosBringer"
      [] key = <<165, 1>> -> "DarkBelra"
      [] key = <<165, 2>> -> "DarkBelra2"
      [] key = <<167, 1>> -> "Bulclaw"
      [] key = <<168, 1>> -> "Claw"
      [] key = <<192, 1>> -> "Dragon"
      [] key = <<192, 2>> -> "GalGryphon"
      [] key = <<193, 1>> -> "DeRolLe"
      [] key = <<197, 1>> -> "VolOpt"
      [] key = <<200, 1>> -> "DarkFalz"
      [] key = <<202, 2>> -> "OlgaFlow"
      [] key = <<203, 2>> -> "BarbaRay"
      [] key = <<204, 2>> -> "GolDragon"
      [] key = <<216, 2>> -> "Gibbles"
      [] key = <<217, 2>> -> "Gee"
      [] key = <<218, 2>> -> "GiGue"
      [] key = <<219, 2>> -> "Deldepth"
      [] key = <<220, 2>> -> "Delbiter"
      [] key = <<222, 2>> -> "Morfos"
      [] key = <<223, 2>> -> "Recobox"
      [] key = <<225, 2>> -> "IllGill"
      [] key = <<272, 4>> -> "Astark"
      [] key = <<273, 4>> -> (IF regular THEN "SatelliteLizard" ELSE "Yowie")
      [] key = <<275, 4>> -> "Girtablulu"
      [] OTHER -> ""

\* switch (type_id): the identity of the matching case, "" when no case matches
NpcTypeById(episode, npc, regular) ==
    LET key == <<npc.type_id>> IN
    CASE key = <<4>> -> "FemaleFat"
      [] key = <<5>> -> "FemaleMacho"
      [] key = <<7>> -> "FemaleTall"
      [] key = <<10>> -> "MaleDwarf"
      [] key = <<11>> -> "MaleFat"
      [] key = <<12>> -> "MaleMacho"
      [] key = <<13>> -> "MaleOld"
      [] key = <<25>> -> "BlueSoldier"
      [] key = <<26>> -> "RedSoldier"
      [] key = <<27>> -> "Principal"
      [] key = <<28>> -> "Tekker"
      [] key = <<29>> -> "GuildLady"
      [] key = <<30>> -> "Scientist"
      [] key = <<31>> -> "Nurse"
      [] key = <<32>> -> "Irene"
      [] key = <<241>> -> "ItemShop"
      [] key = <<254>> -> "Nurse2"
      [] OTHER -> ""

\* get_npc_type: the four switches in turn, Unknown when none has a case
get_npc_type(episode, npc) ==
    LET regular == IsRegular(npc.scale_y)
        r3 == NpcTypeByRoaming3(episode, npc, regular)
        r2 == NpcTypeByRoaming2(episode, npc, regular)
        r1 == NpcTypeByEpisode(episode, npc, regular)
        r0 == NpcTypeById(episode, npc, regular)
    IN IF r3 # "" THEN r3
       ELSE IF r2 # "" THEN r2
       ELSE IF r1 # "" THEN r1
       ELSE IF r0 # "" THEN r0
       ELSE "Unknown"

DatData(type_id, roaming, regular) == [type_id |-> type_id, roaming |-> roaming, regular |-> regular]
NoDatData == DatData(-1, -1, TRUE)
ThrowDatData == DatData(-2, -2, TRUE)

\* npc_type_to_dat_data: the raw type code, roaming value and regular flag of
\* an identity; NoDatData for Unknown (return undefined); ThrowDatData for an
\* identity the switch has no case for (throw)
npc_type_to_dat_data(type) ==
    CASE type = "Unknown" -> NoDatData
      [] type = "FemaleFat" -> DatData(4, 0, TRUE)
      [] type = "FemaleMacho" -> DatData(5, 0, TRUE)
      [] type = "FemaleTall" -> DatData(7, 0, TRUE)
      [] type = "MaleDwarf" -> DatData(10, 0, TRUE)
      [] type = "MaleFat" -> DatData(11, 0, TRUE)
      [] type = "MaleMacho" -> DatData(12, 0, TRUE)
      [] type = "MaleOld" -> DatData(13, 0, TRUE)
      [] type = "BlueSoldier" -> DatData(25, 0, TRUE)
      [] type = "RedSoldier" -> DatData(26, 0, TRUE)
      [] type = "Principal" -> DatData(27, 0, TRUE)
      [] type = "Tekker" -> DatData(28, 0, TRUE)
      [] type = "GuildLady" -> DatData(29, 0, TRUE)
      [] type = "Scientist" -> DatData(30, 0, TRUE)
      [] type = "Nurse" -> DatData(31, 0, TRUE)
      [] type = "Irene" -> DatData(32, 0, TRUE)
      [] type = "ItemShop" -> DatData(241, 0, TRUE)
      [] type = "Nurse2" -> DatData(254, 0, TRUE)
      [] type = "Hildebear" -> DatData(64, 0, TRUE)
      [] type = "Hildeblue" -> DatData(64, 1, TRUE)
      [] type = "RagRappy" -> DatData(65, 0, TRUE)
      [] type = "AlRappy" -> DatData(65, 1, TRUE)
      [] type = "Monest" -> DatData(66, 0, TRUE)
      [] type = "SavageWolf" -> DatData(67, 0, TRUE)
      [] type = "BarbarousWolf" -> DatData(67, 0, FALSE)
      [] type = "Booma" -> DatData(68, 0, TRUE)
      [] type = "Gobooma" -> DatData(68, 1, TRUE)
      [] type = "Gigobooma" -> DatData(68, 2, TRUE)
      [] type = "Dragon" -> DatData(192, 0, TRUE)
      [] type = "GrassAssassin" -> DatData(96, 0, TRUE)
      [] type = "PoisonLily" -> DatData(97, 0, TRUE)
      [] type = "NarLily" -> DatData(97, 1, TRUE)
      [] type = "NanoDragon" -> DatData(98, 0, TRUE)
      [] type = "EvilShark" -> DatData(99, 0, TRUE)
      [] type = "PalShark" -> DatData(99, 1, TRUE)
      [] type = "GuilShark" -> DatData(99, 2, TRUE)
      [] type = "PofuillySlime" -> DatData(100, 0, TRUE)
      [] type = "PouillySlime" -> DatData(100, 0, FALSE)
      [] type = "PanArms" -> DatData(101, 0, TRUE)
      [] type = "DeRolLe" -> DatData(193, 0, TRUE)
      [] type = "Dubchic" -> DatData(128, 0, TRUE)
      [] type = "Gilchic" -> DatData(128, 1, TRUE)
      [] type = "Garanz" -> DatData(129, 0, TRUE)
      [] type = "SinowBeat" -> DatData(130, 0, TRUE)
      [] type = "SinowGold" -> DatData(130, 0, FALSE)
      [] type = "Canadine" -> DatData(131, 0, TRUE)
      [] type = "Canane" -> DatData(132, 0, TRUE)
      [] type = "Dubswitch" -> DatData(133, 0, TRUE)
      [] type = "VolOpt" -> DatData(197, 0, TRUE)
      [] type = "Delsaber" -> DatData(160, 0, TRUE)
      [] type = "ChaosSorcerer" -> DatData(161, 0, TRUE)
      [] type = "DarkGunner" -> DatData(162, 0, TRUE)
      [] type = "ChaosBringer" -> DatData(164, 0, TRUE)
      [] type = "DarkBelra" -> DatData(165, 0, TRUE)
      [] type = "Dimenian" -> DatData(166, 0, TRUE)
      [] type = "LaDimenian" -> DatData(166, 1, TRUE)
      [] type = "SoDimenian" -> DatData(166, 2, TRUE)
      [] type = "Bulclaw" -> DatData(167, 0, TRUE)
      [] type = "Claw" -> DatData(168, 0, TRUE)
      [] type = "DarkFalz" -> DatData(200, 0, TRUE)
      [] type = "Hildebear2" -> DatData(64, 0, TRUE)
      [] type = "Hildeblue2" -> DatData(64, 1, TRUE)
      [] type = "RagRappy2" -> DatData(65, 0, TRUE)
      [] type = "LoveRappy" -> DatData(65, 1, TRUE)
      [] type = "Monest2" -> DatData(66, 0, TRUE)
      [] type = "PoisonLily2" -> DatData(97, 0, TRUE)
      [] type = "NarLily2" -> DatData(97, 1, TRUE)
      [] type = "GrassAssassin2" -> DatData(96, 0, TRUE)
      [] type = "Dimenian2" -> DatData(166, 0, TRUE)
      [] type = "LaDimenian2" -> DatData(166, 1, TRUE)
      [] type = "SoDimenian2" -> DatData(166, 2, TRUE)
      [] type = "DarkBelra2" -> DatData(165, 0, TRUE)
      [] type = "BarbaRay" -> DatData(203, 0, TRUE)
      [] type = "SavageWolf2" -> DatData(67, 0, TRUE)
      [] type = "BarbarousWolf2" -> DatData(67, 0, FALSE)
      [] type = "PanArms2" -> DatData(101, 0, TRUE)
      [] type = "Dubchic2" -> DatData(128, 0, TRUE)
      [] type = "Gilchic2" -> DatData(128, 1, TRUE)
      [] type = "Garanz2" -> DatData(129, 0, TRUE)
      [] type = "Dubswitch2" -> DatData(133, 0, TRUE)
      [] type = "Delsaber2" -> DatData(160, 0, TRUE)
      [] type = "ChaosSorcerer2" -> DatData(161, 0, TRUE)
      [] type = "GolDragon" -> DatData(204, 0, TRUE)
      [] type = "SinowBerill" -> DatData(212, 0, TRUE)
      [] type = "SinowSpigell" -> DatData(212, 1, TRUE)
      [] type = "Merillia" -> DatData(213, 0, TRUE)
      [] type = "Meriltas" -> DatData(213, 1, TRUE)
      [] type = "Mericarol" -> DatData(214, 0, TRUE)
      [] type = "Mericus" -> DatData(214, 1, TRUE)
      [] type = "Merikle" -> DatData(214, 2, TRUE)
      [] type = "UlGibbon" -> DatData(215, 0, TRUE)
      [] type = "ZolGibbon" -> DatData(215, 1, TRUE)
      [] type = "Gibbles" -> DatData(216, 0, TRUE)
      [] type = "Gee" -> DatData(217, 0, TRUE)
      [] type = "GiGue" -> DatData(218, 0, TRUE)
      [] type = "GalGryphon" -> DatData(192, 0, TRUE)
      [] type = "Deldepth" -> DatData(219, 0, TRUE)
      [] type = "Delbiter" -> DatData(220, 0, TRUE)
      [] type = "Dolmolm" -> DatData(221, 0, TRUE)
      [] type = "Dolmdarl" -> DatData(221, 1, TRUE)
      [] type = "Morfos" -> DatData(222, 0, TRUE)
      [] type = "Recobox" -> DatData(223, 0, TRUE)
      [] type = "Epsilon" -> DatData(224, 0, TRUE)
      [] type = "SinowZoa" -> DatData(224, 0, TRUE)
      [] type = "SinowZele" -> DatData(224, 1, TRUE)
      [] type = "IllGill" -> DatData(225, 0, TRUE)
      [] type = "DelLily" -> DatData(97, 0, TRUE)
      [] type = "OlgaFlow" -> DatData(202, 0, TRUE)
      [] type = "SandRappy" -> DatData(65, 0, TRUE)
      [] type = "DelRappy" -> DatData(65, 1, TRUE)
      [] type = "Astark" -> DatData(272, 0, TRUE)
      [] type = "SatelliteLizard" -> DatData(273, 0, TRUE)
      [] type = "Yowie" -> DatData(273, 0, FALSE)
      [] type = "MerissaA" -> DatData(274, 0, TRUE)
      [] type = "MerissaAA" -> DatData(274, 1, TRUE)
      [] type = "Girtablulu" -> DatData(275, 0, TRUE)
      [] type = "Zu" -> DatData(276, 0, TRUE)
      [] type = "Pazuzu" -> DatData(276, 1, TRUE)
      [] type = "Boota" -> DatData(277, 0, TRUE)
      [] type = "ZeBoota" -> DatData(277, 1, TRUE)
      [] type = "BaBoota" -> DatData(277, 2, TRUE)
      [] type = "Dorphon" -> DatData(278, 0, TRUE)
      [] type = "DorphonEclair" -> DatData(278, 1, TRUE)
      [] type = "Goran" -> DatData(279, 0, TRUE)
      [] type = "PyroGoran" -> DatData(279, 1, TRUE)
      [] type = "GoranDetonator" -> DatData(279, 2, TRUE)
      [] type = "SaintMilion" -> DatData(281, 0, TRUE)
      [] type = "Shambertin" -> DatData(281, 1, TRUE)
      [] type = "Kondrieu" -> DatData(281, 0, FALSE)
      [] OTHER -> ThrowDatData

\* mutant: the bit is set for an alternate identity and never cleared
\* (bits | (regular ? 0 : 0x800000))
SetRegularBit_NeverCleared(bits, regular) ==
    LET bit == (bits \div RegularBit) % 2
    IN IF regular \/ bit = 1 THEN bits ELSE bits + RegularBit

\* (bits & ~0x800000) | (regular ? 0 : 0x800000)
SetRegularBit(bits, regular) ==
    LET bit == (bits \div RegularBit) % 2
    IN bits - bit * RegularBit + (IF regular THEN 0 ELSE RegularBit)

\* parse_npc_data, for one NPC
parse_npc(episode, npc_data) ==
    [ type         |-> get_npc_type(episode, npc_data),
      area_id      |-> npc_data.area_id,
      scale_y      |-> npc_data.scale_y,
      rest         |-> npc_data.rest,
      pso_type_id  |-> npc_data.type_id,
      script_label |-> RoundHalves(npc_data.script_label_x2),
      roaming      |-> npc_data.roaming ]

\* an NPC without type data encoded with roaming 0 (a variant)
TypeData_RoamingDropped(npc) ==
    LET known == npc_type_to_dat_data(npc.type)
    IN IF known = NoDatData
       THEN DatData(npc.pso_type_id, 0, TRUE)
       ELSE known

\* the type data npcs_to_dat_data encodes an NPC with
TypeData(npc) ==
    LET known == npc_type_to_dat_data(npc.type)
    IN IF known = NoDatData
       THEN DatData(npc.pso_type_id, npc.roaming, TRUE)
       ELSE known

\* npcs_to_dat_data, for one NPC
npc_to_dat(npc) ==
    LET type_data == TypeData(npc)
    IN [ type_id         |-> type_data.type_id,
         roaming         |-> type_data.roaming,
         area_id         |-> npc.area_id,
         scale_y         |-> SetRegularBit(npc.scale_y, type_data.regular),
         script_label_x2 |-> 2 * npc.script_label,
         rest            |-> npc.rest ]

\* ------------------------------------------------------------ parse_quest
\* String.trim: white space (tab, line feed, vertical tab, form feed,
\* carriage return, space, no-break space) removed from both ends
IsSpace(c) == c \in {9, 10, 11, 12, 13, 32, 160}

Trim(str) ==
    LET keep == { i \in 1..Len(str) : ~IsSpace(str[i]) }
    IN IF keep = {} THEN << >>
       ELSE SubSeq(str, CHOOSE i \in keep : \A j \in keep : i <= j,
                        CHOOSE i \in keep : \A j \in keep : j <= i)

\* String.toLowerCase on ASCII
ToLowerCase(str) == [i \in 1..Len(str) |-> IF str[i] >= 65 /\ str[i] <= 90 THEN str[i] + 32 ELSE str[i]]

\* String.endsWith
EndsWith(str, suffix) ==
    /\ Len(str) >= Len(suffix)
    /\ SubSeq(str, Len(str) - Len(suffix) + 1, Len(str)) = suffix

\* ".dat", ".bin"
DotDat == <<46, 100, 97, 116>>
DotBin == <<46, 98, 105, 110>>

\* the name compared as it stands but for the trim (a variant that tells
\* upper case from lower case)
NormalName_CaseSensitive(name) == Trim(name)

\* file.name.trim().toLowerCase()
NormalName(name) == ToLowerCase(Trim(name))

\* the loop over qst.files: a file is taken as the DAT file when its name
\* ends in .dat, else as the BIN file when it ends in .bin; a later file
\* replaces an earlier one
IsDatFile(file) == EndsWith(NormalName(file.name), DotDat)
IsBinFile(file) == ~IsDatFile(file) /\ EndsWith(NormalName(file.name), DotBin)

\* the index of the last file satisfying the test, 0 when none does
LastDat(arch) ==
    LET m == { i \in 1..Len(arch) : IsDatFile(arch[i]) }
    IN IF m = {} THEN 0 ELSE CHOOSE i \in m : \A j \in m : j <= i

LastBin(arch) ==
    LET m == { i \in 1..Len(arch) : IsBinFile(arch[i]) }
    IN IF m = {} THEN 0 ELSE CHOOSE i \in m : \A j \in m : j <= i

\* the PRS codec and the DAT and BIN codecs, which the quest layer calls:
\* decompression undoes compression, parsing undoes writing
prs_compress(content) == [prs |-> content]
prs_decompress(data) == data.prs
write_dat(dat) == [kind |-> "dat", objs |-> dat.objs, npcs |-> dat.npcs, unknowns |-> dat.unknowns]
parse_dat(bytes) == [objs |-> bytes.objs, npcs |-> bytes.npcs, unknowns |-> bytes.unknowns]
write_bin(bin) == [kind |-> "bin", quest_id |-> bin.quest_id, object_code |-> bin.object_code]
parse_bin(bytes, entry_points, lenient) == [quest_id |-> bytes.quest_id, object_code |-> bytes.object_code]

PropertyNames ==
    << "property_0", "property_1", "property_2", "property_3",
       "property_4", "property_5", "property_6" >>

\* mutant: slot 3 is taken for the script label of every object type
PropertyKey_Slot3Always(type, index) ==
    IF index = 3 THEN "script_label"
    ELSE IF index = 4 /\ type = "RicoMessagePod" THEN "script_label"
    ELSE IF index = 5 /\ type = "RicoMessagePod" THEN "script_label_2"
    ELSE PropertyNames[index + 1]

\* the key parse_obj_data gives the property at an index (0-based)
PropertyKey(type, index) ==
    IF index = 3 /\ type \in {"ScriptCollision", "ForestConsole", "TalkLinkToSupport"}
    THEN "script_label"
    ELSE IF index = 4 /\ type = "RicoMessagePod" THEN "script_label"
    ELSE IF index = 5 /\ type = "RicoMessagePod" THEN "script_label_2"
    ELSE PropertyNames[index + 1]

\* Map.set on a Map kept as its entries in insertion order: a key already
\* present keeps its place and takes the new value
EntrySet(entries, e) ==
    IF \E i \in 1..Len(entries) : entries[i].key = e.key
    THEN [i \in 1..Len(entries) |-> IF entries[i].key = e.key THEN e ELSE entries[i]]
    ELSE Append(entries, e)

RECURSIVE NewMapFrom(_, _)
NewMapFrom(entries, pairs) ==
    IF pairs = << >> THEN entries
    ELSE NewMapFrom(EntrySet(entries, Head(pairs)), Tail(pairs))

\* new Map(pairs)
NewMap(pairs) == NewMapFrom(<< >>, pairs)

\* parse_obj_data, for one object: properties is the Map, in insertion order
parse_obj(obj_data) ==
    [ type       |-> obj_data.type,
      rest       |-> obj_data.rest,
      properties |-> NewMap([i \in 1..Len(obj_data.properties) |->
                         [key |-> PropertyKey(obj_data.type, i - 1), value |-> obj_data.properties[i]]]) ]

\* objects_to_dat_data, for one object
obj_to_dat(object) ==
    [ type       |-> object.type,
      rest       |-> object.rest,
      properties |-> [i \in 1..Len(object.properties) |-> object.properties[i].value] ]

\* Map.get: the values under a key (none or one)
PropertyGet(object, key) ==
    { object.properties[i].value : i \in { j \in 1..Len(object.properties) : object.properties[j].key = key } }

\* Set.add on a set kept in insertion order
SetAdd(seq, v) == IF \E i \in 1..Len(seq) : seq[i] = v THEN seq ELSE Append(seq, v)

RECURSIVE SetAddAll(_, _)
SetAddAll(seq, vs) == IF vs = << >> THEN seq ELSE SetAddAll(SetAdd(seq, Head(vs)), Tail(vs))

\* what the loop over the objects adds for one object
ObjectEntryPoints(object) ==
    LET a == PropertyGet(object, "script_label")
        b == PropertyGet(object, "script_label_2")
    IN (IF a = {} THEN << >> ELSE << CHOOSE v \in a : TRUE >>)
       \o (IF b = {} THEN << >> ELSE << CHOOSE v \in b : TRUE >>)

\* the label of an NPC cut off rather than rounded (a variant)
NpcEntryPoint_Truncated(npc_data) == npc_data.script_label_x2 \div 2

\* what the loop over the NPCs adds for one NPC
NpcEntryPoint(npc_data) == RoundHalves(npc_data.script_label_x2)

RECURSIVE Flatten(_)
Flatten(seqs) == IF seqs = << >> THEN << >> ELSE Head(seqs) \o Flatten(Tail(seqs))

extract_script_entry_points(objects, npcs) ==
    SetAddAll(<<0>>,
              Flatten([i \in 1..Len(objects) |-> ObjectEntryPoints(objects[i])])
              \o [i \in 1..Len(npcs) |-> NpcEntryPoint(npcs[i])])

\* the first instruction segment carrying label 0, 0 when there is none
Label0Segment(object_code) ==
    LET m == { i \in 1..Len(object_code) :
                 object_code[i].type = "Instructions" /\ 0 \in object_code[i].labels }
    IN IF m = {} THEN 0 ELSE CHOOSE i \in m : \A j \in m : i <= j

\* the episode taken from the last set_episode of the function (a variant)
get_episode_LastWins(instructions) ==
    LET m == { i \in 1..Len(instructions) : instructions[i].opcode = "SET_EPISODE" }
    IN IF m = {} THEN EpisodeI
       ELSE LET set_episode == instructions[CHOOSE i \in m : \A j \in m : j <= i]
            IN IF set_episode.args[1] = 1 THEN EpisodeII
               ELSE IF set_episode.args[1] = 2 THEN EpisodeIV
               ELSE EpisodeI

\* get_episode
get_episode(instructions) ==
    LET m == { i \in 1..Len(instructions) : instructions[i].opcode = "SET_EPISODE" }
    IN IF m = {} THEN EpisodeI
       ELSE LET set_episode == instructions[CHOOSE i \in m : \A j \in m : i <= j]
            IN IF set_episode.args[1] = 1 THEN EpisodeII
               ELSE IF set_episode.args[1] = 2 THEN EpisodeIV
               ELSE EpisodeI

\* a map that keeps the value a key was first given (a variant)
MapSet_KeepFirst(map, k, v) == IF \E p \in map : p[1] = k THEN map ELSE map \cup { <<k, v>> }

\* Map.set
MapSet(map, k, v) == { p \in map : p[1] # k } \cup { <<k, v>> }

RECURSIVE MapDesignations(_, _)
MapDesignations(map, instructions) ==
    IF instructions = << >> THEN map
    ELSE LET inst == Head(instructions)
         IN MapDesignations(IF inst.opcode = "BB_MAP_DESIGNATE"
                            THEN MapSet(map, inst.args[1], inst.args[3])
                            ELSE map,
                            Tail(instructions))

extract_map_designations(instructions) == MapDesignations({}, instructions)

Log(level, message) == [level |-> level, message |-> message]

\* parse_quest on the files parse_qst returned: the Quest (NoQuest when it
\* returns nothing), the log, the files decompressed and the entry points
\* handed to parse_bin
parse_quest(arch, lenient) ==
    LET d == LastDat(arch)
        b == LastBin(arch)
    IN IF d = 0
       THEN [ quest |-> NoQuest, log |-> << Log("error", "File contains no DAT file.") >>,
              opened |-> {}, entry |-> << >> ]
       ELSE IF b = 0
       THEN [ quest |-> NoQuest, log |-> << Log("error", "File contains no BIN file.") >>,
              opened |-> {}, entry |-> << >> ]
       ELSE
         LET dat      == parse_dat(prs_decompress(arch[d].data))
             objects  == [i \in 1..Len(dat.objs) |-> parse_obj(dat.objs[i])]
             entries  == extract_script_entry_points(objects, dat.npcs)
             bin      == parse_bin(prs_decompress(arch[b].data), entries, lenient)
             l0       == IF bin.object_code = << >> THEN 0 ELSE Label0Segment(bin.object_code)
             episode  == IF l0 = 0 THEN EpisodeI
                         ELSE get_episode(bin.object_code[l0].instructions)
             maps     == IF l0 = 0 THEN {}
                         ELSE extract_map_designations(bin.object_code[l0].instructions)
             log      == IF bin.object_code = << >>
                         THEN << Log("warn", "File contains no instruction labels.") >>
                         ELSE IF l0 = 0
                         THEN << Log("warn", "No instruction for label 0 found.") >>
                         ELSE IF \A i \in 1..Len(bin.object_code[l0].instructions) :
                                    bin.object_code[l0].instructions[i].opcode # "SET_EPISODE"
                         THEN << Log("debug", "Function 0 has no set_episode instruction.") >>
                         ELSE << >>
         IN [ quest |-> [ id               |-> bin.quest_id,
                          episode          |-> episode,
                          objects          |-> objects,
                          npcs             |-> [i \in 1..Len(dat.npcs) |-> parse_npc(episode, dat.npcs[i])],
                          dat_unknowns     |-> dat.unknowns,
                          object_code      |-> bin.object_code,
                          map_designations |-> maps ],
              log    |-> log,
              opened |-> {d, b},
              entry  |-> entries ]

\* ------------------------------------------------------------ write_quest_qst
\* some NPC has an identity npc_type_to_dat_data throws on
EncodeThrows(q) ==
    \E i \in 1..Len(q.npcs) : npc_type_to_dat_data(q.npcs[i].type) = ThrowDatData

\* mutant: the base is the whole part before the extension
BaseFileName_Untruncated(name) ==
    LET ext_start == LastIndexOf(name, 46)
    IN IF ext_start = -1 THEN name ELSE Slice(name, 0, ext_start)

\* the base of the names of the two contained files
BaseFileName(name) ==
    LET ext_start == LastIndexOf(name, 46)
    IN IF ext_start = -1 THEN Slice(name, 0, 11) ELSE Slice(name, 0, Min(11, ext_start))

\* the files write_quest_qst hands to write_qst
write_quest_qst(q, name) ==
    LET dat == write_dat([ objs     |-> [i \in 1..Len(q.objects) |-> obj_to_dat(q.objects[i])],
                           npcs     |-> [i \in 1..Len(q.npcs) |-> npc_to_dat(q.npcs[i])],
                           unknowns |-> q.dat_unknowns ])
        bin == write_bin([quest_id |-> q.id, object_code |-> q.object_code])
    IN << [name |-> BaseFileName(name) \o DotDat, id |-> q.id, data |-> prs_compress(dat)],
          [name |-> BaseFileName(name) \o DotBin, id |-> q.id, data |-> prs_compress(bin)] >>

\* ------------------------------------------------------------ actions
\* parse_quest on the archive at hand
ParseQuest ==
    /\ qpc \in {"start", "written"}
    /\ LET r == parse_quest(archive, FALSE)
       IN /\ quest' = r.quest
          /\ qlog' = r.log
          /\ opened' = r.opened
          /\ entry' = r.entry
          /\ qpc' = IF r.quest = NoQuest THEN "failed"
                    ELSE IF qpc = "start" THEN "parsed" ELSE "reparsed"
    /\ UNCHANGED <<archive, file_name, first>>
    /\ UNCHANGED outsideQuest

\* write_quest_qst on the Quest just decoded; the archive written is read
\* back as the two files it was made of
WriteQuest ==
    /\ qpc = "parsed"
    /\ IF EncodeThrows(quest)
       THEN /\ qpc' = "threw"
            /\ UNCHANGED <<archive, first>>
       ELSE /\ archive' = write_quest_qst(quest, file_name)
            /\ first' = quest
            /\ qpc' = "written"
    /\ UNCHANGED <<file_name, quest, qlog, opened, entry>>
    /\ UNCHANGED outsideQuest

\* ------------------------------------------------------------ quests read
\* the largest roaming value of the NPCs drawn
MaxRoaming == 3

\* the largest number of contained files of the archives drawn for their names
MaxFiles == 3

\* the type ids that occur in the cases of get_npc_type, and one that does not
NpcTypeIds ==
    { 0,
      4, 5, 7, 10, 11, 12, 13, 25, 26, 27, 28, 29, 30, 31, 32, 64, 65, 66, 67, 68,
      96, 97, 98, 99, 100, 101, 128, 129, 130, 131, 132, 133, 160, 161, 162, 164,
      165, 166, 167, 168, 192, 193, 197, 200, 202, 203, 204, 212, 213, 214, 215,
      216, 217, 218, 219, 220, 221, 222, 223, 224, 225, 241, 254, 272, 273, 274,
      275, 276, 277, 278, 279, 281 }

\* scale.y: 0.0, 0.5, the float32 below 1.0, 1.0, 1.00001 (the last within
\* 0.00001 of 1), the first beyond it, 1.5
ScaleYs ==
    { 0, F32One - RegularBit, F32One - 1, F32One, F32One + 83, F32One + 84,
      F32One + RegularBit \div 2 }

Inst(opcode, args) == [opcode |-> opcode, args |-> args]
Segment(type, labels, instructions) == [type |-> type, labels |-> labels, instructions |-> instructions]

\* function 0 of a quest of an episode: set_episode with the argument the
\* game uses (0, 1, 2), or none at all (-1)
Function0(arg) ==
    IF arg = -1
    THEN << Inst("RET", << >>) >>
    ELSE << Inst("SET_EPISODE", <<arg>>), Inst("BB_MAP_DESIGNATE", <<0, 0, arg, 0>>), Inst("RET", << >>) >>

\* bytecode drawn for the episode and the map designations
ObjectCodes ==
    { << >>,
      << Segment("Data", {0}, << >>) >>,
      << Segment("Instructions", {1}, Function0(1)) >>,
      << Segment("Data", {0}, << >>), Segment("Instructions", {0, 2}, Function0(2)),
         Segment("Instructions", {0}, Function0(1)) >>,
      << Segment("Instructions", {0},
                 << Inst("BB_MAP_DESIGNATE", <<1, 0, 5, 0>>), Inst("SET_EPISODE", <<3>>),
                    Inst("BB_MAP_DESIGNATE", <<1, 0, 7, 0>>), Inst("SET_EPISODE", <<1>>),
                    Inst("BB_MAP_DESIGNATE", <<2, 0, 7, 0>>) >>) >> }

DatNpc(type_id, roaming, area_id, scale_y, script_label_x2) ==
    [ type_id |-> type_id, roaming |-> roaming, area_id |-> area_id, scale_y |-> scale_y,
      script_label_x2 |-> script_label_x2, rest |-> 7 ]

DatObject(type, properties) == [type |-> type, rest |-> 3, properties |-> properties]

DatContent(objs, npcs, unknowns) ==
    prs_compress(write_dat([objs |-> objs, npcs |-> npcs, unknowns |-> unknowns]))

BinContent(quest_id, object_code) ==
    prs_compress(write_bin([quest_id |-> quest_id, object_code |-> object_code]))

ContainedFile(name, data) == [name |-> name, data |-> data]

Str_q_qst == <<113, 46, 113, 115, 116>>

\* a well-formed archive of one DAT and one BIN file
PlainArchive(objs, npcs, object_code) ==
    << ContainedFile(NameDat, DatContent(objs, npcs, << 9 >>)),
       ContainedFile(NameBin, BinContent(58, object_code)) >>

\* one NPC of every type id, roaming value, area and scale, in every episode
NpcArchives ==
    { PlainArchive(<< >>, << DatNpc(t, r, a, y, 2 * 100) >>,
                   << Segment("Instructions", {0}, Function0(e)) >>) :
        <<t, r, a, y, e>> \in NpcTypeIds \X (0..MaxRoaming) \X {0, 16} \X ScaleYs \X {-1, 0, 1, 2} }

ObjectTypes == {"ScriptCollision", "ForestConsole", "TalkLinkToSupport", "RicoMessagePod", "Box"}

ObjectProperties == { <<10, 11, 12, 13, 14, 15, 16>>, <<10, 11, 12, 0, 13, 13, 16>> }

\* script_label of an NPC as DAT stores it, in halves: 0, 6.5, 13, 99.5 and -0.5
ScriptLabelsX2 == {0, 13, 26, 199, -1}

\* two objects and two NPCs, for the entry points
EntryArchives ==
    { PlainArchive(<< DatObject(t1, p1), DatObject(t2, <<10, 11, 12, 13, 14, 15, 16>>) >>,
                   << DatNpc(68, 0, 0, 0, l1), DatNpc(68, 0, 0, 0, l2) >>,
                   << Segment("Instructions", {0}, Function0(0)) >>) :
        <<t1, p1, t2, l1, l2>> \in
            ObjectTypes \X ObjectProperties \X {"RicoMessagePod", "Box"} \X ScriptLabelsX2 \X {13, 26} }

\* archives without objects or NPCs, for the bytecode
CodeArchives == { PlainArchive(<< >>, << >>, c) : c \in ObjectCodes }

\* names of contained files that name a DAT file: " Q.DAT ", ".dat",
\* "q.bin.dat", "q.dat"
DatNames ==
    { <<32, 81, 46, 68, 65, 84, 32>>, DotDat, <<113>> \o DotBin \o DotDat, NameDat }

\* names that name a BIN file: "q.bin" and TAB, "Q.Bin", "q.dat.bin"
BinNames ==
    { <<113, 46, 98, 105, 110, 9>>, <<81, 46, 66, 105, 110>>, <<113>> \o DotDat \o DotBin }

\* names that name neither: "q.txt", "dat", "q.da t", ".bin."
OtherNames ==
    { <<113, 46, 116, 120, 116>>, <<100, 97, 116>>, <<113, 46, 100, 97, 32, 116>>, DotBin \o <<46>> }

ContainedNames == DatNames \cup BinNames \cup OtherNames

\* the file at a position of an archive drawn for its names: a DAT file or
\* a BIN file after its name, its content marked with its position
NamedFile(name, i) ==
    ContainedFile(name,
                  IF name \in DatNames
                  THEN DatContent(<< >>, << >>, << i >>)
                  ELSE BinContent(i, << >>))

NameArchives ==
    UNION { { [i \in 1..n |-> NamedFile(names[i], i)] : names \in [1..n -> ContainedNames] } : n \in 0..MaxFiles }

\* "averylongquestname"
LongName ==
    <<97, 118, 101, 114, 121, 108, 111, 110, 103, 113, 117, 101, 115, 116, 110, 97, 109, 101>>

\* names given to write_quest_qst: "q.qst", "q", ".qst", "a.b.qst",
\* "averylongquestname.qst", "averylongquestname", "averylongqu.qst",
\* "averylongque.qst" and "a.averylongquestname"
FileNames ==
    { Str_q_qst, <<113>>, <<46, 113, 115, 116>>, <<97, 46, 98, 46, 113, 115, 116>>,
      LongName \o <<46, 113, 115, 116>>, LongName,
      SubSeq(LongName, 1, 11) \o <<46, 113, 115, 116>>,
      SubSeq(LongName, 1, 12) \o <<46, 113, 115, 116>>,
      <<97, 46>> \o LongName }

QuestInputs ==
    ((NpcArchives \cup EntryArchives \cup NameArchives) \X {Str_q_qst})
    \cup (CodeArchives \X FileNames)

InitQuest ==
    /\ ContainerIdle
    /\ NpcIdle
    /\ AsmIdle
    /\ ApartIdle
    /\ qpc = "start"
    /\ \E input \in QuestInputs :
         /\ archive = input[1]
         /\ file_name = input[2]
    /\ quest = NoQuest
    /\ first = NoQuest
    /\ qlog = << >>
    /\ opened = {}
    /\ entry = << >>

NextQuest ==
    \/ ParseQuest
    \/ WriteQuest

SpecQuest == InitQuest /\ [][NextQuest]_vars

\* ------------------------------------------------------------ properties of the quest layer
\* the fields of a Quest the round trip is to keep
SameQuest(a, b) ==
    /\ a.objects = b.objects
    /\ a.npcs = b.npcs
    /\ a.dat_unknowns = b.dat_unknowns
    /\ a.object_code = b.object_code
    /\ a.episode = b.episode
    /\ a.map_designations = b.map_designations

\* C1: a Quest that parse_quest produced, written by write_quest_qst under
\* any file name and parsed again, comes back with the same objects, NPCs
\* (type, roaming and scale included), unknown DAT records, bytecode
\* segments, episode and map designations.
C1_RoundTrip == qpc = "reparsed" => SameQuest(quest, first)

\* the ways the NPCs of a round trip differ
C1_ScaleKept ==
    qpc = "reparsed" =>
        \A i \in 1..Len(first.npcs) : quest.npcs[i].scale_y = first.npcs[i].scale_y

C1_TypeKept ==
    qpc = "reparsed" =>
        \A i \in 1..Len(first.npcs) : quest.npcs[i].type = first.npcs[i].type

C1_RoamingKept ==
    qpc = "reparsed" =>
        \A i \in 1..Len(first.npcs) : quest.npcs[i].roaming = first.npcs[i].roaming

C1_RestKept ==
    qpc = "reparsed" =>
        /\ quest.objects = first.objects
        /\ quest.dat_unknowns = first.dat_unknowns
        /\ quest.object_code = first.object_code
        /\ quest.episode = first.episode
        /\ quest.map_designations = first.map_designations
        /\ \A i \in 1..Len(first.npcs) :
             /\ quest.npcs[i].area_id = first.npcs[i].area_id
             /\ quest.npcs[i].script_label = first.npcs[i].script_label
             /\ quest.npcs[i].rest = first.npcs[i].rest

\* a name that, with the white space at its ends removed and its letters
\* made lower case, ends in the extension
NameEndsIn(name, ext) ==
    \E j \in 4..Len(name) :
        /\ \A k \in (j + 1)..Len(name) : IsSpace(name[k])
        /\ ~IsSpace(name[j])
        /\ \A k \in 1..4 :
             LET c == name[j - 4 + k]
             IN c = ext[k] \/ (c >= 65 /\ c <= 90 /\ c + 32 = ext[k])

\* the positions of the files parse_quest just read that match an extension
Members(ext) == { i \in 1..Len(archive) : NameEndsIn(archive[i].name, ext) }

\* parse_quest has just returned
JustParsed == qpc \in {"parsed", "reparsed", "failed"}

\* C9: parse_quest takes as the DAT and the BIN member files whose trimmed,
\* lower-cased names end in ".dat" and ".bin"; without a ".dat" member, or
\* without a ".bin" member, it returns no Quest, reports the missing DAT
\* first when both are missing, and decompresses or parses no file.
C9_MemberSelection ==
    JustParsed =>
        /\ Members(DotDat) = {} =>
             /\ quest = NoQuest
             /\ qlog = << Log("error", "File contains no DAT file.") >>
             /\ opened = {}
        /\ (Members(DotDat) # {} /\ Members(DotBin) = {}) =>
             /\ quest = NoQuest
             /\ qlog = << Log("error", "File contains no BIN file.") >>
             /\ opened = {}
        /\ (Members(DotDat) # {} /\ Members(DotBin) # {}) =>
             /\ quest # NoQuest
             /\ \E d \in Members(DotDat), b \in Members(DotBin) :
                  /\ opened = {d, b}
                  /\ quest.dat_unknowns = prs_decompress(archive[d].data).unknowns
                  /\ quest.id = prs_decompress(archive[b].data).quest_id

\* an archive with a BIN member and no DAT member, one with a DAT member
\* only, one with neither, and one whose members are found under names in
\* upper case and with white space
C9_Witness ==
    /\ qpc = "failed"
    /\ Len(archive) = 2
    /\ Members(DotDat) = {}
    /\ Members(DotBin) # {}

C9_Witness_Found ==
    /\ qpc = "parsed"
    /\ Len(archive) = 3
    /\ archive[1].name = <<32, 81, 46, 68, 65, 84, 32>>
    /\ archive[3].name = <<113, 46, 98, 105, 110, 9>>
    /\ opened = {1, 3}

\* Math.round of a number given in halves: the integer n with
\* n - 1/2 <= x < n + 1/2
Rounded(h) == CHOOSE n \in -300..300 : 2 * n - 1 <= h /\ h < 2 * n + 1

\* the DAT file parse_quest just decoded, as it was written
OpenedDat ==
    LET d == CHOOSE i \in opened : prs_decompress(archive[i].data).kind = "dat"
    IN prs_decompress(archive[d].data)

\* script_label and script_label_2 of the objects of a DAT file
ObjectLabels(dat) ==
    { dat.objs[i].properties[4] :
        i \in { k \in 1..Len(dat.objs) :
                  dat.objs[k].type \in {"ScriptCollision", "ForestConsole", "TalkLinkToSupport"} } }
    \cup
    UNION { { dat.objs[i].properties[5], dat.objs[i].properties[6] } :
        i \in { k \in 1..Len(dat.objs) : dat.objs[k].type = "RicoMessagePod" } }

NpcLabels(dat) == { Rounded(dat.npcs[i].script_label_x2) : i \in 1..Len(dat.npcs) }

\* C10: the entry points handed to parse_bin are 0, the script_label and
\* script_label_2 of every object that has them, and the rounded
\* script_label of every NPC, and nothing else; 0 is among them and none
\* occurs twice.
C10_EntryPoints ==
    qpc \in {"parsed", "reparsed"} =>
        /\ { entry[i] : i \in 1..Len(entry) } = {0} \cup ObjectLabels(OpenedDat) \cup NpcLabels(OpenedDat)
        /\ \E i \in 1..Len(entry) : entry[i] = 0
        /\ \A i, j \in 1..Len(entry) : entry[i] = entry[j] => i = j

\* both labels of a message pod that are equal, a label of an NPC rounded
\* up from a half and a label that 0 already covers
C10_Witness ==
    /\ qpc = "parsed"
    /\ Len(quest.objects) = 2
    /\ Len(quest.npcs) = 2
    /\ entry = <<0, 13, 14, 15, 100, 7>>

\* the BIN file parse_quest just decoded, as it was written
OpenedBin ==
    LET b == CHOOSE i \in opened : prs_decompress(archive[i].data).kind = "bin"
    IN prs_decompress(archive[b].data)

\* the instruction segments of the bytecode that carry label 0, by position
Label0Segments ==
    { i \in 1..Len(OpenedBin.object_code) :
        /\ OpenedBin.object_code[i].type = "Instructions"
        /\ 0 \in OpenedBin.object_code[i].labels }

\* the instructions of the first of them
Function0Instructions ==
    OpenedBin.object_code[CHOOSE i \in Label0Segments : \A j \in Label0Segments : i <= j].instructions

\* the positions of the set_episode instructions of function 0
SetEpisodes ==
    { i \in 1..Len(Function0Instructions) : Function0Instructions[i].opcode = "SET_EPISODE" }

\* the episode the first set_episode of function 0 names
NamedEpisode ==
    LET a == Function0Instructions[CHOOSE i \in SetEpisodes : \A j \in SetEpisodes : i <= j].args[1]
    IN IF a = 1 THEN EpisodeII ELSE IF a = 2 THEN EpisodeIV ELSE EpisodeI

\* the messages logged at a level
Logged(level) == { i \in 1..Len(qlog) : qlog[i].level = level }

\* what is the same in the claim and in the code: the episode is that of the
\* first set_episode of the first segment with label 0, a quest without
\* such a segment or such an instruction is decoded all the same, as
\* Episode I, and a warning is logged when there is no such segment
EpisodeRead ==
    /\ quest # NoQuest
    /\ Label0Segments = {} => (quest.episode = EpisodeI /\ Logged("warn") # {})
    /\ (Label0Segments # {} /\ SetEpisodes = {}) => quest.episode = EpisodeI
    /\ (Label0Segments # {} /\ SetEpisodes # {}) => quest.episode = NamedEpisode

C11_Witness_First ==
    /\ qpc = "parsed"
    /\ Cardinality(Label0Segments) = 2
    /\ quest.episode = EpisodeIV

\* the positions of the bb_map_designate instructions of function 0
Designations ==
    IF Label0Segments = {} THEN {}
    ELSE { i \in 1..Len(Function0Instructions) : Function0Instructions[i].opcode = "BB_MAP_DESIGNATE" }

\* C12: the map designations of a decoded Quest are the pairs arg0 -> arg2
\* of the BB_MAP_DESIGNATE instructions of the label-0 segment and nothing
\* else; of several with the same arg0 the last one gives the value;
\* other segments add nothing.
C12_MapDesignations ==
    qpc \in {"parsed", "reparsed"} =>
        quest.map_designations =
            { << Function0Instructions[i].args[1], Function0Instructions[i].args[3] >> :
                i \in { k \in Designations :
                          \A l \in Designations :
                              Function0Instructions[l].args[1] = Function0Instructions[k].args[1] => l <= k } }

\* a quest whose function 0 designates map 1 twice and map 2 once, and a
\* quest with designations in a second segment of label 0
C12_Witness ==
    /\ qpc = "parsed"
    /\ Cardinality(Designations) = 3
    /\ quest.map_designations = { <<1, 7>>, <<2, 7>> }

C12_Witness_OtherSegment ==
    /\ qpc = "parsed"
    /\ Cardinality(Label0Segments) = 2
    /\ quest.map_designations = { <<0, 2>> }

\* ------------------------------------------------------------ one NPC
\* the identities npc_type_to_dat_data has a case with a triple for
EncodableTypes ==
    {
      "AlRappy", "Astark", "BaBoota", "BarbaRay", "BarbarousWolf",
      "BarbarousWolf2", "BlueSoldier", "Booma", "Boota", "Bulclaw", "Canadine",
      "Canane", "ChaosBringer", "ChaosSorcerer", "ChaosSorcerer2", "Claw",
      "DarkBelra", "DarkBelra2", "DarkFalz", "DarkGunner", "DeRolLe", "DelLily",
      "DelRappy", "Delbiter", "Deldepth", "Delsaber", "Delsaber2", "Dimenian",
      "Dimenian2", "Dolmdarl", "Dolmolm", "Dorphon", "DorphonEclair", "Dragon",
      "Dubchic", "Dubchic2", "Dubswitch", "Dubswitch2", "Epsilon", "EvilShark",
      "FemaleFat", "FemaleMacho", "FemaleTall", "GalGryphon", "Garanz", "Garanz2",
      "Gee", "GiGue", "Gibbles", "Gigobooma", "Gilchic", "Gilchic2", "Girtablulu",
      "Gobooma", "GolDragon", "Goran", "GoranDetonator", "GrassAssassin",
      "GrassAssassin2", "GuilShark", "GuildLady", "Hildebear", "Hildebear2",
      "Hildeblue", "Hildeblue2", "IllGill", "Irene", "ItemShop", "Kondrieu",
      "LaDimenian", "LaDimenian2", "LoveRappy", "MaleDwarf", "MaleFat",
      "MaleMacho", "MaleOld", "Mericarol", "Mericus", "Merikle", "Merillia",
      "Meriltas", "MerissaA", "MerissaAA", "Monest", "Monest2", "Morfos",
      "NanoDragon", "NarLily", "NarLily2", "Nurse", "Nurse2", "OlgaFlow",
      "PalShark", "PanArms", "PanArms2", "Pazuzu", "PofuillySlime", "PoisonLily",
      "PoisonLily2", "PouillySlime", "Principal", "PyroGoran", "RagRappy",
      "RagRappy2", "Recobox", "RedSoldier", "SaintMilion", "SandRappy",
      "SatelliteLizard", "SavageWolf", "SavageWolf2", "Scientist", "Shambertin",
      "SinowBeat", "SinowBerill", "SinowGold", "SinowSpigell", "SinowZele",
      "SinowZoa", "SoDimenian", "SoDimenian2", "Tekker", "UlGibbon", "VolOpt",
      "Yowie", "ZeBoota", "ZolGibbon", "Zu" }

\* identities the comment above get_npc_type names as not detected;
\* npc_type_to_dat_data has no case for them
UndetectedTypes ==
    { "Mothmant", "StRappy", "HalloRappy", "EggRappy", "DeathGunner", "Bulk", "Recon" }

\* get_npc_type and the rest of parse_npc_data on the DatNpc at hand
DecodeNpc ==
    /\ npc_pc \in {"raw", "encoded"}
    /\ quest_npc' = parse_npc(npc_episode, dat_npc)
    /\ quest_npc_first' = IF npc_pc = "raw" THEN parse_npc(npc_episode, dat_npc) ELSE quest_npc_first
    /\ npc_pc' = IF npc_pc = "raw" THEN "decoded" ELSE "redecoded"
    /\ UNCHANGED <<npc_episode, dat_npc>>
    /\ UNCHANGED outsideNpc

\* npcs_to_dat_data on the QuestNpc at hand: a DatNpc, or nothing when
\* npc_type_to_dat_data throws
EncodeNpc ==
    /\ npc_pc \in {"decoded", "made"}
    /\ IF npc_type_to_dat_data(quest_npc.type) = ThrowDatData
       THEN /\ npc_pc' = "threw"
            /\ UNCHANGED dat_npc
       ELSE /\ npc_pc' = "encoded"
            /\ dat_npc' = npc_to_dat(quest_npc)
    /\ UNCHANGED <<npc_episode, quest_npc, quest_npc_first>>
    /\ UNCHANGED outsideNpc

\* episodes a DatNpc is decoded under: those of the game and two that are not
NpcEpisodes == {0, EpisodeI, EpisodeII, 3, EpisodeIV}

\* scale.y: 0.0, 0.5, 0.99999994, 1.0, the first value beyond 1.00001 and
\* 1.9999999
NpcScaleYs ==
    { 0, F32One - RegularBit, F32One - 1, F32One, F32One + 84, F32One + RegularBit - 1 }

\* DatNpcs as parse_dat returns them
RawNpcs ==
    { DatNpc(t, r, a, y, 0) :
        <<t, r, a, y>> \in NpcTypeIds \X (-1..MaxRoaming) \X {0, 16} \X NpcScaleYs }

\* QuestNpcs as the constructor of QuestNpc makes them
MadeNpcs ==
    { [ type |-> t, area_id |-> 0, scale_y |-> y, rest |-> 7, pso_type_id |-> 68,
        script_label |-> 0, roaming |-> r ] :
        <<t, y, r>> \in (EncodableTypes \cup UndetectedTypes \cup {"Unknown"}) \X {0, F32One} \X {0, 1} }

InitNpc ==
    /\ ContainerIdle
    /\ QuestIdle
    /\ AsmIdle
    /\ ApartIdle
    /\ \/ /\ npc_pc = "raw"
          /\ npc_episode \in NpcEpisodes
          /\ dat_npc \in RawNpcs
          /\ quest_npc = NoNpc
       \/ /\ npc_pc = "made"
          /\ npc_episode = EpisodeI
          /\ dat_npc = NoNpcData
          /\ quest_npc \in MadeNpcs
    /\ quest_npc_first = NoNpc

NextNpc ==
    \/ DecodeNpc
    \/ EncodeNpc

SpecNpc == InitNpc /\ [][NextNpc]_vars

\* ------------------------------------------------------------ properties of the NPC tables
\* the type ids the cases of the four switches of get_npc_type name
Roaming3Ids == {68, 99, 166, 214, 277, 279}
Roaming2Ids == {64, 65, 128, 212, 213, 215, 221, 224, 274, 276, 278, 281}
EpisodeIds ==
    { 66, 67, 96, 97, 98, 100, 101, 129, 130, 131, 132, 133, 160, 161, 162, 164, 165, 167,
      168, 192, 193, 197, 200, 202, 203, 204, 216, 217, 218, 219, 220, 222, 223, 225, 272,
      273, 275 }
TypeOnlyIds == {4, 5, 7, 10, 11, 12, 13, 25, 26, 27, 28, 29, 30, 31, 32, 241, 254}

\* get_npc_type has just run on the DatNpc at hand
JustDecoded == npc_pc \in {"decoded", "redecoded"}

\* what the four tables hold for the DatNpc at hand, "" where a table has
\* no entry
Found3 == NpcTypeByRoaming3(npc_episode, dat_npc, IsRegular(dat_npc.scale_y))
Found2 == NpcTypeByRoaming2(npc_episode, dat_npc, IsRegular(dat_npc.scale_y))
Found1 == NpcTypeByEpisode(npc_episode, dat_npc, IsRegular(dat_npc.scale_y))
Found0 == NpcTypeById(npc_episode, dat_npc, IsRegular(dat_npc.scale_y))

\* C13: get_npc_type gives a result for every type id, roaming value,
\* episode, scale and area: that of the (type, roaming mod 3, episode) table
\* if it has one, else that of the (type, roaming mod 2, episode) table,
\* else that of the (type, episode) table, else that of the type table,
\* else Unknown; a roaming value or an episode no table holds gives Unknown
\* for the types of the first three tables and does not stop the lookup.
C13_TotalLookup ==
    JustDecoded =>
        /\ quest_npc.type \in EncodableTypes \cup {"Unknown"}
        /\ Found3 # "" => quest_npc.type = Found3
        /\ (Found3 = "" /\ Found2 # "") => quest_npc.type = Found2
        /\ (Found3 = "" /\ Found2 = "" /\ Found1 # "") => quest_npc.type = Found1
        /\ (Found3 = "" /\ Found2 = "" /\ Found1 = "" /\ Found0 # "") => quest_npc.type = Found0
        /\ (Found3 = "" /\ Found2 = "" /\ Found1 = "" /\ Found0 = "") => quest_npc.type = "Unknown"
        /\ dat_npc.type_id \notin (Roaming3Ids \cup Roaming2Ids \cup EpisodeIds \cup TypeOnlyIds) =>
             quest_npc.type = "Unknown"
        /\ (npc_episode \notin {EpisodeI, EpisodeII, EpisodeIV} /\ dat_npc.type_id \notin TypeOnlyIds) =>
             quest_npc.type = "Unknown"
        /\ (dat_npc.roaming = -1 /\ dat_npc.type_id \in Roaming3Ids \cup Roaming2Ids) =>
             quest_npc.type = "Unknown"
        /\ dat_npc.type_id \in TypeOnlyIds => quest_npc.type \notin {"Unknown", ""}

\* type 0x044 with roaming -1 in Episode I, and with roaming 1 in an
\* episode that is none of the game's
C13_Witness ==
    /\ npc_pc = "decoded"
    /\ dat_npc.type_id = 68
    /\ dat_npc.roaming = -1
    /\ npc_episode = EpisodeI
    /\ quest_npc.type = "Unknown"

C13_Witness_Episode ==
    /\ npc_pc = "decoded"
    /\ dat_npc.type_id = 68
    /\ dat_npc.roaming = 1
    /\ npc_episode = 3
    /\ quest_npc.type = "Unknown"

\* C14: for an identity with an inverse mapping, decoded under an episode
\* and an area, what the encoder emits for it (raw type code, roaming, and
\* scale.y adjusted for the regular flag) decodes, under the same episode
\* and area, to the same identity.
C14_EncodeInvertsDecode ==
    (npc_pc = "redecoded" /\ quest_npc_first.type \in EncodableTypes) =>
        quest_npc.type = quest_npc_first.type

\* the example of the claim: 0x044 with roaming 1 in Episode I is Gobooma,
\* which is encoded as 0x044, roaming 1, regular, and decoded as Gobooma
C14_Gobooma ==
    (npc_pc = "redecoded" /\ quest_npc_first.type = "Gobooma") =>
        /\ dat_npc.type_id = 68
        /\ dat_npc.roaming = 1
        /\ quest_npc.type = "Gobooma"

\* the identities with a regular and an alternate variant
AlternateTypes ==
    { "BarbarousWolf", "BarbarousWolf2", "NarLily", "NarLily2", "PouillySlime", "SinowGold",
      "Yowie", "Kondrieu" }

RegularTypes ==
    { "SavageWolf", "SavageWolf2", "PoisonLily", "PoisonLily2", "PofuillySlime", "SinowBeat",
      "SatelliteLizard", "SaintMilion", "Shambertin" }

\* the encoder has just run on an NPC
JustEncoded == npc_pc \in {"encoded", "threw"}

\* C15 (as claimed): encoding an NPC whose identity has no triple in the
\* inverse mapping fails, and no NPC record is emitted for it.
C15_FatalWithoutTriple ==
    [][(npc_pc \in {"decoded", "made"} /\ quest_npc.type \notin EncodableTypes) =>
         (npc_pc' = "threw" /\ dat_npc' = dat_npc)]_vars

\* C15 (amended): encoding an NPC whose identity is not Unknown and has no
\* triple in the inverse mapping fails, and no NPC record is emitted for
\* it; an NPC of identity Unknown is emitted with the raw type code and the
\* roaming value stored with it, as a regular one.
C15_FatalUnlessUnknown ==
    [][(npc_pc \in {"decoded", "made"}) =>
         /\ quest_npc.type \notin EncodableTypes \cup {"Unknown"} =>
              (npc_pc' = "threw" /\ dat_npc' = dat_npc)
         /\ quest_npc.type = "Unknown" =>
              /\ npc_pc' = "encoded"
              /\ dat_npc'.type_id = quest_npc.pso_type_id
              /\ dat_npc'.roaming = quest_npc.roaming
              /\ (dat_npc'.scale_y \div RegularBit) % 2 = 0
         /\ quest_npc.type \in EncodableTypes => npc_pc' = "encoded"]_vars

\* an identity that is not detected has failed to encode, and an Unknown
\* with roaming 1 has been encoded
C15_Witness ==
    /\ npc_pc = "threw"
    /\ quest_npc.type = "Mothmant"
    /\ dat_npc = NoNpcData

C15_Witness_Unknown ==
    /\ npc_pc = "encoded"
    /\ quest_npc.type = "Unknown"
    /\ dat_npc.roaming = 1
    /\ dat_npc.type_id = 68

\* the DatNpc at hand falls under a case of get_npc_type that tells a
\* regular from an alternate identity
VariantCase ==
    \/ dat_npc.type_id = 67 /\ npc_episode \in {EpisodeI, EpisodeII}
    \/ dat_npc.type_id = 97 /\ npc_episode \in {EpisodeI, EpisodeII} /\ dat_npc.area_id <= 15
    \/ dat_npc.type_id = 100 /\ npc_episode = EpisodeI
    \/ dat_npc.type_id = 130 /\ npc_episode = EpisodeI
    \/ dat_npc.type_id = 273 /\ npc_episode = EpisodeIV
    \/ dat_npc.type_id = 281 /\ npc_episode = EpisodeIV /\ dat_npc.roaming >= 0

\* |scale.y - 1| <= 0.00001 for the float32 of these bits
WithinEpsilon(bits) == bits \in (F32One - 167)..(F32One + 83)

C16_Witness_Regular ==
    /\ npc_pc = "decoded"
    /\ dat_npc.type_id = 281
    /\ dat_npc.roaming = 1
    /\ dat_npc.scale_y = 0
    /\ quest_npc.type = "Shambertin"

\* ------------------------------------------------------------ assemble, disassemble
\* A line of a script is kept as its label (-1 for none), its mnemonic and
\* its arguments, each a number or a register (r<n>); the layout of the
\* text is left out.
Line(label, mnemonic, args) == [label |-> label, mnemonic |-> mnemonic, args |-> args]
Num(n) == [reg |-> FALSE, value |-> n]
Reg(n) == [reg |-> TRUE, value |-> n]

Param(stack, kinds, opcode) == [stack |-> stack, params |-> kinds, opcode |-> opcode]

\* the opcodes the scripts of the tests use: whether the arguments go over
\* the stack, and the kind of every argument
Mnemonics ==
    { "set_episode", "bb_map_designate", "set_floor_handler", "set_mainwarp", "ret", "leti",
      "exit", "p_dead_v3" }

OpcodeOf(mnemonic) ==
    CASE mnemonic = "set_episode" -> Param(FALSE, << "dword" >>, "SET_EPISODE")
      [] mnemonic = "bb_map_designate" -> Param(FALSE, << "byte", "word", "byte", "byte" >>, "BB_MAP_DESIGNATE")
      [] mnemonic = "set_floor_handler" -> Param(TRUE, << "dword", "label" >>, "SET_FLOOR_HANDLER")
      [] mnemonic = "set_mainwarp" -> Param(TRUE, << "dword" >>, "SET_MAINWARP")
      [] mnemonic = "ret" -> Param(FALSE, << >>, "RET")
      [] mnemonic = "leti" -> Param(FALSE, << "reg_ref", "dword" >>, "LETI")
      [] mnemonic = "exit" -> Param(TRUE, << "dword" >>, "EXIT")
      [] mnemonic = "p_dead_v3" -> Param(TRUE, << "reg_ref", "dword" >>, "P_DEAD_V3")

MnemonicOf(opcode) == CHOOSE mnemonic \in Mnemonics : OpcodeOf(mnemonic).opcode = opcode

PushOpcodes == { "ARG_PUSHB", "ARG_PUSHW", "ARG_PUSHL", "ARG_PUSHR" }

Arg(value, size) == [value |-> value, size |-> size]

\* the width in bytes of an argument of a kind
KindSize(kind) ==
    CASE kind = "byte" -> 1
      [] kind = "word" -> 2
      [] kind = "label" -> 2
      [] kind = "dword" -> 4
      [] kind = "reg_ref" -> 1

\* a label pushed as a 4-byte literal (a variant)
PushInstruction_LabelAsLong(kind, arg) ==
    IF kind = "reg_ref" THEN Inst("ARG_PUSHB", << Arg(arg.value, 1) >>)
    ELSE IF arg.reg THEN Inst("ARG_PUSHR", << Arg(arg.value, 1) >>)
    ELSE IF kind \in {"dword", "label"} THEN Inst("ARG_PUSHL", << Arg(arg.value, 4) >>)
    ELSE IF kind = "byte" THEN Inst("ARG_PUSHB", << Arg(arg.value, 1) >>)
    ELSE Inst("ARG_PUSHW", << Arg(arg.value, 2) >>)

\* the instruction that pushes an argument of a kind
PushInstruction(kind, arg) ==
    IF kind = "reg_ref" THEN Inst("ARG_PUSHB", << Arg(arg.value, 1) >>)
    ELSE IF arg.reg THEN Inst("ARG_PUSHR", << Arg(arg.value, 1) >>)
    ELSE IF kind = "dword" THEN Inst("ARG_PUSHL", << Arg(arg.value, 4) >>)
    ELSE IF kind = "byte" THEN Inst("ARG_PUSHB", << Arg(arg.value, 1) >>)
    ELSE Inst("ARG_PUSHW", << Arg(arg.value, 2) >>)

\* an argument is a register exactly where the opcode wants one, or where
\* it goes over the stack
ArgFits(op, i, arg) == arg.reg => (op.params[i] = "reg_ref" \/ op.stack)

\* the line can be assembled
LineFits(line) ==
    /\ line.mnemonic \in Mnemonics
    /\ Len(line.args) = Len(OpcodeOf(line.mnemonic).params)
    /\ \A i \in 1..Len(line.args) : ArgFits(OpcodeOf(line.mnemonic), i, line.args[i])

\* the arguments pushed last to first (a variant)
LineInstructions_PushesReversed(line) ==
    LET op == OpcodeOf(line.mnemonic)
        n == Len(line.args)
    IN IF op.stack
       THEN [i \in 1..n |-> PushInstruction(op.params[n + 1 - i], line.args[n + 1 - i])]
            \o << Inst(op.opcode, << >>) >>
       ELSE << Inst(op.opcode, [i \in 1..n |-> Arg(line.args[i].value, KindSize(op.params[i]))]) >>

\* the instructions a line is assembled to
LineInstructions(line) ==
    LET op == OpcodeOf(line.mnemonic)
    IN IF op.stack
       THEN [i \in 1..Len(line.args) |-> PushInstruction(op.params[i], line.args[i])]
            \o << Inst(op.opcode, << >>) >>
       ELSE << Inst(op.opcode, [i \in 1..Len(line.args) |-> Arg(line.args[i].value, KindSize(op.params[i]))]) >>

\* the last segment of the object code with instructions added
AddInstructions(code, instructions) ==
    [code EXCEPT ![Len(code)] = Segment("Instructions", @.labels, @.instructions \o instructions)]

RECURSIVE AssembleLines(_, _, _)
AssembleLines(lines, code, errors) ==
    IF lines = << >> THEN [object_code |-> code, warnings |-> << >>, errors |-> errors]
    ELSE LET line == Head(lines)
             open == IF line.label # -1
                     THEN Append(code, Segment("Instructions", {line.label}, << >>))
                     ELSE code
         IN IF ~LineFits(line)
            THEN AssembleLines(Tail(lines), open, Append(errors, line.mnemonic))
            ELSE AssembleLines(Tail(lines), AddInstructions(open, LineInstructions(line)), errors)

\* assemble
assemble(lines) == AssembleLines(lines, << >>, << >>)

\* the pushes taken off the stack last first (a variant)
StackArgs_PopOrder(op, stack) ==
    [i \in 1..Len(stack) |->
        LET push == stack[Len(stack) + 1 - i]
        IN IF op.params[i] = "reg_ref" \/ push.opcode = "ARG_PUSHR"
           THEN Reg(push.args[1].value)
           ELSE Num(push.args[1].value)]

\* the pushes on the stack turned into the arguments of the opcode
StackArgs(op, stack) ==
    [i \in 1..Len(stack) |->
        IF op.params[i] = "reg_ref" \/ stack[i].opcode = "ARG_PUSHR"
        THEN Reg(stack[i].args[1].value)
        ELSE Num(stack[i].args[1].value)]

\* the arguments an instruction carries itself
InlineArgs(op, args) ==
    [i \in 1..Len(args) |-> IF op.params[i] = "reg_ref" THEN Reg(args[i].value) ELSE Num(args[i].value)]

RECURSIVE DisassembleInstructions(_, _, _, _)
DisassembleInstructions(instructions, stack, label, lines) ==
    IF instructions = << >> THEN lines
    ELSE LET inst == Head(instructions)
         IN IF inst.opcode \in PushOpcodes
            THEN DisassembleInstructions(Tail(instructions), Append(stack, inst), label, lines)
            ELSE LET op == OpcodeOf(MnemonicOf(inst.opcode))
                     args == IF op.stack THEN StackArgs(op, stack) ELSE InlineArgs(op, inst.args)
                 IN DisassembleInstructions(Tail(instructions), << >>, -1,
                                            Append(lines, Line(label, MnemonicOf(inst.opcode), args)))

\* the label of a segment
SegmentLabel(segment) == CHOOSE l \in segment.labels : TRUE

\* disassemble
disassemble(code) ==
    Flatten([i \in 1..Len(code) |->
                DisassembleInstructions(code[i].instructions, << >>, SegmentLabel(code[i]), << >>)])

\* ------------------------------------------------------------ actions of the assembler
Assemble ==
    /\ asm_pc \in {"source", "disassembled"}
    /\ LET r == assemble(IF asm_pc = "source" THEN asm_lines ELSE asm_text)
       IN /\ asm_code' = r.object_code
          /\ asm_errors' = r.errors
          /\ asm_first' = IF asm_pc = "source" THEN r.object_code ELSE asm_first
          /\ asm_pc' = IF r.errors # << >> THEN "errors"
                       ELSE IF asm_pc = "source" THEN "assembled" ELSE "reassembled"
    /\ UNCHANGED <<asm_lines, asm_text>>
    /\ UNCHANGED outsideAsm

Disassemble ==
    /\ asm_pc = "assembled"
    /\ asm_text' = disassemble(asm_code)
    /\ asm_pc' = "disassembled"
    /\ UNCHANGED <<asm_lines, asm_code, asm_errors, asm_first>>
    /\ UNCHANGED outsideAsm

\* ------------------------------------------------------------ scripts
\* the largest number of lines of the scripts drawn
MaxLines == 3

\* the scripts of the three tests
BasicScript ==
    << Line(0, "set_episode", << Num(0) >>),
       Line(-1, "bb_map_designate", << Num(1), Num(2), Num(3), Num(4) >>),
       Line(-1, "set_floor_handler", << Num(0), Num(150) >>),
       Line(-1, "set_floor_handler", << Num(1), Num(151) >>),
       Line(-1, "ret", << >>),
       Line(150, "set_mainwarp", << Num(1) >>),
       Line(-1, "ret", << >>),
       Line(151, "ret", << >>) >>

RegisterValueScript ==
    << Line(0, "leti", << Reg(255), Num(7) >>), Line(-1, "exit", << Reg(255) >>), Line(-1, "ret", << >>) >>

RegisterReferenceScript ==
    << Line(0, "p_dead_v3", << Reg(200), Num(3) >>), Line(-1, "ret", << >>) >>

\* the instructions scripts are drawn from; the last is no opcode
ScriptInstructions ==
    { << "set_episode", << Num(1) >> >>,
      << "bb_map_designate", << Num(1), Num(2), Num(3), Num(4) >> >>,
      << "set_floor_handler", << Num(0), Num(150) >> >>,
      << "set_mainwarp", << Reg(9) >> >>,
      << "ret", << >> >>,
      << "leti", << Reg(255), Num(7) >> >>,
      << "exit", << Num(3) >> >>,
      << "p_dead_v3", << Reg(200), Num(3) >> >>,
      << "nop_unknown", << >> >> }

\* a first line with label 0, further lines with label 150 or none
FirstLines == { Line(0, i[1], i[2]) : i \in ScriptInstructions }
OtherLines == { Line(l, i[1], i[2]) : <<l, i>> \in {-1, 150} \X ScriptInstructions }

\* no label is given to two lines
LabelsDiffer(lines) ==
    \A i, j \in 1..Len(lines) : (lines[i].label # -1 /\ lines[i].label = lines[j].label) => i = j

Scripts ==
    { BasicScript, RegisterValueScript, RegisterReferenceScript }
    \cup UNION { { script \in { <<f>> \o rest : <<f, rest>> \in FirstLines \X [1..n -> OtherLines] } :
                     LabelsDiffer(script) } : n \in 0..(MaxLines - 1) }

InitAsm ==
    /\ ContainerIdle
    /\ QuestIdle
    /\ NpcIdle
    /\ ApartIdle
    /\ asm_pc = "source"
    /\ asm_lines \in Scripts
    /\ asm_code = << >>
    /\ asm_errors = << >>
    /\ asm_text = << >>
    /\ asm_first = << >>

NextAsm ==
    \/ Assemble
    \/ Disassemble

SpecAsm == InitAsm /\ [][NextAsm]_vars

\* ------------------------------------------------------------ properties of the assembler
\* the opcodes that take their arguments from the stack
StackMnemonics == { "set_floor_handler", "set_mainwarp", "exit", "p_dead_v3" }

\* the lines of the script that open a segment, and the lines of the k-th
\* segment
LabelLines == { p \in 1..Len(asm_lines) : asm_lines[p].label # -1 }

SegmentStart(k) == CHOOSE p \in LabelLines : Cardinality({ q \in LabelLines : q <= p }) = k

SegmentLines(k) ==
    SubSeq(asm_lines, SegmentStart(k),
           IF k = Cardinality(LabelLines) THEN Len(asm_lines) ELSE SegmentStart(k + 1) - 1)

\* the positions, in the k-th segment of the object code, of the
\* instructions that are no pushes, and the position of the i-th of them
\* (0 for i = 0)
RealAt(k) ==
    { j \in 1..Len(asm_code[k].instructions) : asm_code[k].instructions[j].opcode \notin PushOpcodes }

RealPosition(k, i) ==
    IF i = 0 THEN 0
    ELSE CHOOSE j \in RealAt(k) : Cardinality({ x \in RealAt(k) : x <= j }) = i

\* the i-th line of the k-th segment is assembled as the claim says
LineAssembled(k, i) ==
    LET line == SegmentLines(k)[i]
        ins  == asm_code[k].instructions
        at   == RealPosition(k, i)
        n    == Len(line.args)
    IN /\ ins[at].opcode = OpcodeOf(line.mnemonic).opcode
       /\ IF line.mnemonic \in StackMnemonics
          THEN /\ ins[at].args = << >>
               /\ at - RealPosition(k, i - 1) - 1 = n
               /\ \A a \in 1..n :
                    /\ ins[at - n + a - 1].opcode \in PushOpcodes
                    /\ Len(ins[at - n + a - 1].args) = 1
                    /\ ins[at - n + a - 1].args[1].value = line.args[a].value
          ELSE /\ at = RealPosition(k, i - 1) + 1
               /\ Len(ins[at].args) = n
               /\ \A a \in 1..n : ins[at].args[a].value = line.args[a].value

\* the object code the test expects of the basic script
BasicObjectCode ==
    << Segment("Instructions", {0},
               << Inst("SET_EPISODE", << Arg(0, 4) >>),
                  Inst("BB_MAP_DESIGNATE", << Arg(1, 1), Arg(2, 2), Arg(3, 1), Arg(4, 1) >>),
                  Inst("ARG_PUSHL", << Arg(0, 4) >>),
                  Inst("ARG_PUSHW", << Arg(150, 2) >>),
                  Inst("SET_FLOOR_HANDLER", << >>),
                  Inst("ARG_PUSHL", << Arg(1, 4) >>),
                  Inst("ARG_PUSHW", << Arg(151, 2) >>),
                  Inst("SET_FLOOR_HANDLER", << >>),
                  Inst("RET", << >>) >>),
       Segment("Instructions", {150},
               << Inst("ARG_PUSHL", << Arg(1, 4) >>), Inst("SET_MAINWARP", << >>), Inst("RET", << >>) >>),
       Segment("Instructions", {151}, << Inst("RET", << >>) >>) >>

\* C17: assemble turns a line with an opcode that takes its arguments from
\* the stack into one ARG_PUSH* instruction per argument, in the order of
\* the arguments, right before the instruction itself, which has no
\* arguments; an opcode with inline arguments keeps them and gets no push.
C17_StackArguments ==
    asm_pc = "assembled" =>
        /\ Len(asm_code) = Cardinality(LabelLines)
        /\ \A k \in 1..Len(asm_code) :
             /\ Cardinality(RealAt(k)) = Len(SegmentLines(k))
             /\ RealAt(k) # {} => Len(asm_code[k].instructions) \in RealAt(k)
             /\ \A i \in 1..Len(SegmentLines(k)) : LineAssembled(k, i)
        /\ asm_lines = BasicScript => asm_code = BasicObjectCode

\* the basic script of the test has been assembled
C17_Witness ==
    /\ asm_pc = "assembled"
    /\ asm_lines = BasicScript
    /\ Len(asm_code) = 3
    /\ Len(asm_code[1].instructions) = 9

\* the push of argument a of line i of segment k
PushOf(k, i, a) ==
    asm_code[k].instructions[RealPosition(k, i) - Len(SegmentLines(k)[i].args) + a - 1]

C18_Witness_Reference ==
    /\ asm_pc = "assembled"
    /\ asm_lines = RegisterReferenceScript
    /\ asm_code[1].instructions[1] = Inst("ARG_PUSHB", << Arg(200, 1) >>)
    /\ asm_code[1].instructions[2] = Inst("ARG_PUSHL", << Arg(3, 4) >>)

\* C19: disassembling the object code of a script that assembled without
\* errors gives back its labels, mnemonics and arguments, the pushes
\* before an opcode that takes its arguments from the stack folded into
\* its arguments in the order pushed; assembling the disassembled text
\* gives the same segments, one for every label line, in the order of the
\* source.
C19_DisassembleInverts ==
    /\ asm_pc = "disassembled" =>
         /\ asm_text = asm_lines
         /\ \A i \in 1..Len(asm_text) : asm_text[i].mnemonic \in Mnemonics
    /\ asm_pc = "reassembled" =>
         /\ asm_code = asm_first
         /\ Len(asm_code) = Cardinality(LabelLines)
         /\ \A k \in 1..Len(asm_code) : asm_code[k].labels = { asm_lines[SegmentStart(k)].label }

\* the basic script has gone through assemble, disassemble and assemble
C19_Witness ==
    /\ asm_pc = "reassembled"
    /\ asm_lines = BasicScript
    /\ asm_text = BasicScript
    /\ asm_code = BasicObjectCode

\* ------------------------------------------------------------ writeQst called again
\* the caller keeps the archive writeQst returned and calls writeQst once
\* more with the params of the first call
WriteAgain ==
    /\ pc = "wdone"
    /\ returned = << >>
    /\ returned' = << out >>
    /\ pc' = "wstart"
    /\ UNCHANGED <<params, out, totalSize, hi, wq, wnos, wi, err>>
    /\ UNCHANGED pvars
    /\ UNCHANGED <<qvars, nvars, avars, apart>>

NextTwice ==
    \/ Next
    \/ WriteAgain

SpecTwice == Init /\ [][NextTwice]_vars

\* C20: writeQst leaves its input as it was: when it returns, the data of
\* every file and the position it is read from are those of before the
\* call, and a second call with the same params succeeds and returns the
\* same bytes.
C20_InputUntouched ==
    /\ (pc = "wdone" /\ inp = EmptyInput) => \A i \in 1..Len(params) : params[i].pos = 0
    /\ (returned # << >> /\ pc \in {"wcheck", "wdone", "werr"} /\ inp = EmptyInput) =>
         /\ pc # "werr"
         /\ ~SizeMismatch
         /\ out = returned[1]

\* the second call alone: it succeeds and returns the bytes of the first
C20_SecondCallSame ==
    (returned # << >> /\ pc \in {"wdone", "werr"} /\ inp = EmptyInput) =>
        (pc = "wdone" /\ out = returned[1])

\* the second call never fails
C20_SecondCallSucceeds ==
    (returned # << >> /\ inp = EmptyInput) => pc # "werr"

\* ------------------------------------------------------------ parseFiles: payload length
\* ---- C21
\* C21 as written: after decoding, the payload byte length of every
\* contained file equals the maximum of the bytes actually written by its
\* chunks and the expected size its header declares.
C21_MaxWithExpected ==
    (pc = "pdone" /\ ~WriterRun) =>
        \A i \in 1..Len(files) :
            files[i].size = Max(AssembledSize(files[i].name), DeclaredSize(files[i].name))

\* C21 amended: after decoding, the payload byte length of every contained
\* file equals the bytes actually written by its chunks (the highest
\* chunk_index*1024 + chunk size read, a size above 1024 counting as 1024),
\* whatever expected size the headers declare; the expected size enters
\* only the count of required chunks.
C21_BytesWritten ==
    (pc = "pdone" /\ ~WriterRun) =>
        \A i \in 1..Len(files) :
            /\ files[i].size = AssembledSize(files[i].name)
            /\ Len(files[i].cells) * Grain = files[i].size
            /\ RequiredChunks(files[i])
                 = CeilDiv(Max(AssembledSize(files[i].name), DeclaredSize(files[i].name)), ChunkDataSize)

\* C21 witness: a file declared with 3072 bytes was decoded from chunks 1
\* and 0, in that order, that wrote only 1536 of them
C21_Witness ==
    /\ pc = "pdone"
    /\ ~WriterRun
    /\ Len(inp.chunks) = 2
    /\ inp.chunks[1] = Rec(NameDat, 1, Grain, <<2, 1>>)
    /\ inp.chunks[2] = Rec(NameDat, 0, ChunkDataSize, <<1, 2>>)
    /\ files[1].expectedSize = 3 * ChunkDataSize
    /\ files[1].size = ChunkDataSize + Grain


\* ------------------------------------------------------------ object properties
\* ---- C22
\* the name the specification gives a property slot (0-based) of an object
SlotName(type, slot) ==
    IF slot = 3 /\ type \in {"ScriptCollision", "ForestConsole", "TalkLinkToSupport"}
    THEN "script_label"
    ELSE IF slot = 4 /\ type = "RicoMessagePod" THEN "script_label"
    ELSE IF slot = 5 /\ type = "RicoMessagePod" THEN "script_label_2"
    ELSE PropertyNames[slot + 1]

\* the DAT file write_quest_qst has just written
WrittenDat == prs_decompress(archive[1].data)

\* C22: decoding names slot 3 script_label for ScriptCollision,
\* ForestConsole and TalkLinkToSupport, slots 4 and 5 script_label and
\* script_label_2 for RicoMessagePod and every other slot
\* property_<index>, each name holding the value of its slot; encoding a
\* decoded object writes a property list with the same number of slots,
\* each value at the index it was read from.
C22_Relabeling ==
    /\ qpc \in {"parsed", "reparsed"} =>
         /\ Len(quest.objects) = Len(OpenedDat.objs)
         /\ \A k \in 1..Len(quest.objects) :
              LET d == OpenedDat.objs[k]
                  o == quest.objects[k]
              IN /\ o.type = d.type
                 /\ Len(o.properties) = Len(d.properties)
                 /\ \A i \in 1..Len(d.properties) :
                      o.properties[i] = [key |-> SlotName(d.type, i - 1), value |-> d.properties[i]]
    /\ qpc = "written" =>
         /\ Len(WrittenDat.objs) = Len(first.objects)
         /\ \A k \in 1..Len(first.objects) :
              /\ Len(WrittenDat.objs[k].properties) = Len(first.objects[k].properties)
              /\ \A i \in 1..Len(first.objects[k].properties) :
                   WrittenDat.objs[k].properties[i] = first.objects[k].properties[i].value

\* C22 witness: a message pod whose two script labels are both 13 was
\* decoded and written back with its seven slots as they were read
C22_Witness ==
    /\ qpc = "written"
    /\ Len(first.objects) = 2
    /\ first.objects[1].type = "RicoMessagePod"
    /\ first.objects[1].properties[5] = [key |-> "script_label", value |-> 13]
    /\ first.objects[1].properties[6] = [key |-> "script_label_2", value |-> 13]
    /\ WrittenDat.objs[1].properties = <<10, 11, 12, 0, 13, 13, 16>>


\* ------------------------------------------------------------ names of the files written
\* ---- C23
\* the part of a name before its last "." (the whole name if it has none)
Stem(name) ==
    LET dots == { i \in 1..Len(name) : name[i] = 46 }
    IN IF dots = {} THEN name
       ELSE SubSeq(name, 1, (CHOOSE i \in dots : \A j \in dots : j <= i) - 1)

\* a string cut to its first n characters
Truncated(str, n) == IF Len(str) > n THEN SubSeq(str, 1, n) ELSE str

\* a file of write_quest_qst as the container encoder looks at it (no
\* secondary name is given)
AsContained(file) == [name |-> file.name, name2 |-> NoName]

\* C23: for every file name, write_quest_qst names its two files
\* base + ".dat" and base + ".bin", in that order, both carrying the quest
\* id, where base is the part of the file name before its last "." (the
\* whole name if it has none) cut to 11 characters; the names have at most
\* 15 characters and the container encoder does not refuse them, nor the
\* secondary names it derives from them, as too long.
C23_ContainedNames ==
    qpc = "written" =>
        LET base == Truncated(Stem(file_name), 11)
        IN /\ Len(archive) = 2
           /\ archive[1].name = base \o <<46, 100, 97, 116>>
           /\ archive[2].name = base \o <<46, 98, 105, 110>>
           /\ \A i \in 1..2 :
                /\ archive[i].id = first.id
                /\ Len(archive[i].name) <= 15
                /\ ~NameTooLong(AsContained(archive[i]))
                /\ ~FileName2TooLong(AsContained(archive[i]))

\* C23 witness: a quest written as "averylongquestname.qst" has its files
\* named "averylongqu.dat" and "averylongqu.bin"
C23_Witness ==
    /\ qpc = "written"
    /\ file_name = LongName \o <<46, 113, 115, 116>>
    /\ archive[1].name = <<97, 118, 101, 114, 121, 108, 111, 110, 103, 113, 117, 46, 100, 97, 116>>
    /\ archive[2].name = <<97, 118, 101, 114, 121, 108, 111, 110, 103, 113, 117, 46, 98, 105, 110>>


\* ------------------------------------------------------------ the cursor, byte by byte
\* the largest number of whole chunk records in the buffers read byte by byte
MaxChunkRecs == 2

\* cursor operations: a relative seek, a read or a write of a field of n
\* bytes, a warning
Seek(n) == [op |-> "seek", field |-> "", n |-> n]
Get(field, n) == [op |-> "read", field |-> field, n |-> n]
Put(field, n) == [op |-> "write", field |-> field, n |-> n]
Warn(kind) == [op |-> "warn", field |-> kind, n |-> 0]

\* mutant: the name read two bytes earlier
ParseHeaderOps_NameAt42 ==
    << Seek(4), Get("questNo", 2), Seek(36), Get("fileName", NameFieldLen), Get("size", 4),
       Get("fileName2", Name2FieldLen), Seek(2) >>

\* the body of the loop of parseHeaders
ParseHeaderOps ==
    << Seek(4), Get("questNo", 2), Seek(38), Get("fileName", NameFieldLen), Get("size", 4),
       Get("fileName2", Name2FieldLen) >>

\* the body of the loop of writeFileHeaders, past its tests of the names
WriteHeaderOps ==
    << Put("headerSize", 2), Put("magic", 2), Put("questNo", 2), Put("zero", 38),
       Put("fileName", NameFieldLen), Put("size", 4), Put("fileName2", Name2FieldLen) >>

\* mutant: the padding and the trailer skipped as if every chunk were full
ParseChunkOps_FullSkip(declaredSize) ==
    << Seek(4), Get("chunkNo", 1), Seek(3), Get("fileName", NameFieldLen),
       Seek(ChunkDataSize), Get("size", 4), Seek(-1028) >>
    \o (IF declaredSize > ChunkDataSize THEN << Warn("clamped") >> ELSE << >>)
    \o << Get("data", ClampedSize(declaredSize)), Seek(1032 - ChunkDataSize) >>

\* the body of the loop of parseFiles, for a record whose size field holds
\* declaredSize
ParseChunkOps(declaredSize) ==
    << Seek(4), Get("chunkNo", 1), Seek(3), Get("fileName", NameFieldLen),
       Seek(ChunkDataSize), Get("size", 4), Seek(-1028) >>
    \o (IF declaredSize > ChunkDataSize THEN << Warn("clamped") >> ELSE << >>)
    \o << Get("data", ClampedSize(declaredSize)), Seek(1032 - ClampedSize(declaredSize)) >>

\* writeFileChunk, for a chunk of takeSize payload bytes
WriteChunkOps(takeSize) ==
    << Put("marker", 4), Put("chunkNo", 1), Put("zero", 3), Put("fileName", NameFieldLen),
       Put("data", takeSize), Put("padding", ChunkDataSize - takeSize), Put("size", 4),
       Put("zero", 4) >>

\* a field of a record, as a function reads or writes it
Access(function, cursorOp) ==
    [ function |-> function, field |-> cursorOp.field,
      offset |-> cursor_position - record_start, n |-> cursorOp.n ]

\* one cursor operation: the position moves by its bytes
Exec(function, cursorOp) ==
    /\ cursor_position' = cursor_position + cursorOp.n
    /\ accessed' = IF cursorOp.op \in {"read", "write"}
                   THEN accessed \cup { Access(function, cursorOp) }
                   ELSE accessed
    /\ byte_warns' = IF cursorOp.op = "warn" THEN Append(byte_warns, cursorOp.field) ELSE byte_warns

\* cursor.bytes_left of the buffer read
InputLeft == byte_input.total - cursor_position

\* parseHeaders: one cursor operation of its loop of two iterations
ByteParseHeaders ==
    /\ byte_pc = "parseHeaders"
    /\ Exec("parseHeaders", Head(byte_ops))
    /\ IF Tail(byte_ops) # << >>
       THEN /\ byte_ops' = Tail(byte_ops)
            /\ UNCHANGED <<byte_pc, record_start, byte_iter>>
       ELSE /\ record_start' = cursor_position'
            /\ IF byte_iter + 1 < 2
               THEN /\ byte_iter' = byte_iter + 1
                    /\ byte_ops' = ParseHeaderOps
                    /\ byte_pc' = byte_pc
               ELSE /\ byte_iter' = 0
                    /\ byte_ops' = << >>
                    /\ byte_pc' = "parseFiles"
    /\ UNCHANGED <<byte_input, data_left>>
    /\ UNCHANGED outsideBytes

\* parseFiles: while (cursor.bytes_left >= 1056), the loop entered
ByteParseFilesEnter ==
    /\ byte_pc = "parseFiles"
    /\ byte_ops = << >>
    /\ InputLeft >= ChunkRecordSize
    /\ record_start' = cursor_position
    /\ byte_ops' = ParseChunkOps(byte_input.declared[byte_iter + 1])
    /\ UNCHANGED <<byte_pc, byte_input, cursor_position, byte_iter, data_left, accessed, byte_warns>>
    /\ UNCHANGED outsideBytes

\* parseFiles: one cursor operation of the loop, and the test of the
\* position that ends the iteration
ByteParseFilesOp ==
    /\ byte_pc = "parseFiles"
    /\ byte_ops # << >>
    /\ Exec("parseFiles", Head(byte_ops))
    /\ byte_ops' = Tail(byte_ops)
    /\ IF Tail(byte_ops) = << >>
       THEN IF cursor_position' # record_start + ChunkRecordSize
            THEN byte_pc' = "threw" /\ byte_iter' = byte_iter
            ELSE byte_pc' = byte_pc /\ byte_iter' = byte_iter + 1
       ELSE UNCHANGED <<byte_pc, byte_iter>>
    /\ UNCHANGED <<byte_input, record_start, data_left>>
    /\ UNCHANGED outsideBytes

\* parseFiles: the loop left, the bytes left over warned about
ByteParseFilesExit ==
    /\ byte_pc = "parseFiles"
    /\ byte_ops = << >>
    /\ InputLeft < ChunkRecordSize
    /\ byte_warns' = IF InputLeft # 0 THEN Append(byte_warns, "left") ELSE byte_warns
    /\ byte_pc' = "done"
    /\ UNCHANGED <<byte_input, cursor_position, record_start, byte_iter, byte_ops, data_left, accessed>>
    /\ UNCHANGED outsideBytes

\* writeFileHeaders: one cursor operation of its loop over the files
ByteWriteHeaders ==
    /\ byte_pc = "writeFileHeaders"
    /\ Exec("writeFileHeaders", Head(byte_ops))
    /\ IF Tail(byte_ops) # << >>
       THEN /\ byte_ops' = Tail(byte_ops)
            /\ UNCHANGED <<byte_pc, record_start, byte_iter, data_left>>
       ELSE /\ record_start' = cursor_position'
            /\ IF byte_iter + 1 < Len(byte_input.sizes)
               THEN /\ byte_iter' = byte_iter + 1
                    /\ byte_ops' = WriteHeaderOps
                    /\ UNCHANGED <<byte_pc, data_left>>
               ELSE /\ byte_iter' = 0
                    /\ byte_ops' = << >>
                    /\ data_left' = byte_input.sizes
                    /\ byte_pc' = "writeFileChunks"
    /\ UNCHANGED byte_input
    /\ UNCHANGED outsideBytes

\* writeFileChunks: writeFileChunk called for files[i]
ByteWriteChunkEnter ==
    /\ byte_pc = "writeFileChunks"
    /\ byte_ops = << >>
    /\ data_left # << >>
    /\ record_start' = cursor_position
    /\ byte_ops' = WriteChunkOps(Min(ChunkDataSize, data_left[byte_iter + 1]))
    /\ UNCHANGED <<byte_pc, byte_input, cursor_position, byte_iter, data_left, accessed, byte_warns>>
    /\ UNCHANGED outsideBytes

\* writeFileChunk: one cursor operation; when it returns, the file leaves
\* the rotation or i moves on
ByteWriteChunkOp ==
    /\ byte_pc = "writeFileChunks"
    /\ byte_ops # << >>
    /\ Exec("writeFileChunk", Head(byte_ops))
    /\ byte_ops' = Tail(byte_ops)
    /\ LET taken == IF Head(byte_ops).field = "data"
                    THEN [data_left EXCEPT ![byte_iter + 1] = @ - Head(byte_ops).n]
                    ELSE data_left
       IN IF Tail(byte_ops) # << >>
          THEN /\ data_left' = taken
               /\ byte_iter' = byte_iter
          ELSE LET more   == taken[byte_iter + 1] > 0
                   queue  == IF more THEN taken ELSE Splice(taken, byte_iter + 1)
                   nextI  == IF more THEN byte_iter + 1 ELSE byte_iter
               IN /\ data_left' = queue
                  /\ byte_iter' = IF nextI < Len(queue) THEN nextI ELSE 0
    /\ UNCHANGED <<byte_pc, byte_input, record_start>>
    /\ UNCHANGED outsideBytes

\* writeFileChunks: no file left
ByteWriteExit ==
    /\ byte_pc = "writeFileChunks"
    /\ byte_ops = << >>
    /\ data_left = << >>
    /\ byte_pc' = "done"
    /\ UNCHANGED <<byte_input, cursor_position, record_start, byte_iter, byte_ops, data_left,
                   accessed, byte_warns>>
    /\ UNCHANGED outsideBytes

\* the values of the size field of the chunk records read: empty, one byte,
\* half, full, one more than full, far more
DeclaredSizes == {0, 1, Grain, ChunkDataSize, ChunkDataSize + 1, U16Range}

\* the bytes after the last whole chunk record
TrailingBytes == {0, 1, ChunkRecordSize - 1}

\* the buffers read: two headers, up to MaxChunkRecs chunk records, a rest
ByteBuffers ==
    { [ total |-> 2 * HeaderSize + Len(d) * ChunkRecordSize + t, declared |-> d, sizes |-> << >> ] :
        d \in UNION { [1..n -> DeclaredSizes] : n \in 0..MaxChunkRecs }, t \in TrailingBytes }

\* the payload sizes of the one or two files written
ByteFileLists ==
    { [ total |-> 0, declared |-> << >>, sizes |-> z ] :
        z \in UNION { [1..n -> {0, 1, ChunkDataSize, ChunkDataSize + 1, 2 * ChunkDataSize}] : n \in 1..2 } }

InitBytes ==
    /\ ContainerIdle
    /\ QuestIdle
    /\ NpcIdle
    /\ AsmIdle
    /\ EntityIdle
    /\ ComponentsIdle
    /\ byte_input \in ByteBuffers \cup ByteFileLists
    /\ byte_pc = IF byte_input.sizes = << >> THEN "parseHeaders" ELSE "writeFileHeaders"
    /\ byte_ops = IF byte_input.sizes = << >> THEN ParseHeaderOps ELSE WriteHeaderOps
    /\ cursor_position = 0
    /\ record_start = 0
    /\ byte_iter = 0
    /\ data_left = << >>
    /\ accessed = {}
    /\ byte_warns = << >>

NextBytes ==
    \/ ByteParseHeaders
    \/ ByteParseFilesEnter
    \/ ByteParseFilesOp
    \/ ByteParseFilesExit
    \/ ByteWriteHeaders
    \/ ByteWriteChunkEnter
    \/ ByteWriteChunkOp
    \/ ByteWriteExit

SpecBytes == InitBytes /\ [][NextBytes]_vars

\* ---- C24
\* the fields of a kind of record, in the functions that read and write it
Fields(functions) == { a \in accessed : a.function \in functions }

\* every access of a field by the functions is at an offset, with a width
FieldAt(functions, field, offset, n) ==
    \A a \in Fields(functions) : a.field = field => (a.offset = offset /\ a.n = n)

\* C24 as written: decoder and encoder place, in each 88-byte header
\* record, quest_no at offset 4 (2 bytes) and the 16-byte name at offset
\* 42, then the 4-byte expected size and the 24-byte secondary name; in
\* each 1056-byte chunk record the 1-byte chunk index at offset 4 and the
\* 16-byte name at offset 7, then 1024 payload bytes and the 4-byte size.
C24_LayoutAsWritten ==
    /\ FieldAt({"parseHeaders", "writeFileHeaders"}, "questNo", 4, 2)
    /\ FieldAt({"parseHeaders", "writeFileHeaders"}, "fileName", 42, 16)
    /\ FieldAt({"parseHeaders", "writeFileHeaders"}, "size", 42 + 16, 4)
    /\ FieldAt({"parseHeaders", "writeFileHeaders"}, "fileName2", 42 + 16 + 4, 24)
    /\ FieldAt({"parseFiles", "writeFileChunk"}, "chunkNo", 4, 1)
    /\ FieldAt({"parseFiles", "writeFileChunk"}, "fileName", 7, 16)
    /\ FieldAt({"parseFiles", "writeFileChunk"}, "size", 7 + 16 + 1024, 4)

\* the accesses of the payload of a chunk record lie in the 1024 bytes
\* that start at an offset
PayloadAt(offset) ==
    \A a \in Fields({"parseFiles", "writeFileChunk"}) :
        /\ a.field = "data" => (a.offset = offset /\ a.n <= 1024)
        /\ a.field = "padding" => (a.offset + a.n = offset + 1024 /\ a.offset >= offset)

\* the fields a function has gone through once it has returned
Visited(function) == { a.field : a \in Fields({function}) }

\* C24 amended: decoder and encoder place, in each 88-byte header record,
\* quest_no at offset 4 (2 bytes) and the 16-byte name at offset 44, then
\* the 4-byte expected size (offset 60) and the 24-byte secondary name
\* (offset 64); in each 1056-byte chunk record the 1-byte chunk index at
\* offset 4 and the 16-byte name at offset 8, then 1024 payload bytes
\* (offset 24) and the 4-byte size (offset 1048).
C24_Layout ==
    /\ FieldAt({"parseHeaders", "writeFileHeaders"}, "questNo", 4, 2)
    /\ FieldAt({"parseHeaders", "writeFileHeaders"}, "fileName", 44, 16)
    /\ FieldAt({"parseHeaders", "writeFileHeaders"}, "size", 60, 4)
    /\ FieldAt({"parseHeaders", "writeFileHeaders"}, "fileName2", 64, 24)
    /\ FieldAt({"parseFiles", "writeFileChunk"}, "chunkNo", 4, 1)
    /\ FieldAt({"parseFiles", "writeFileChunk"}, "fileName", 8, 16)
    /\ PayloadAt(24)
    /\ FieldAt({"parseFiles", "writeFileChunk"}, "size", 1048, 4)
    /\ byte_ops = << >> => (cursor_position - record_start) \in {0, HeaderSize, ChunkRecordSize}
    /\ byte_pc \in {"parseFiles", "done"} /\ byte_input.sizes = << >> =>
         Visited("parseHeaders") = {"questNo", "fileName", "size", "fileName2"}
    /\ byte_pc \in {"writeFileChunks", "done"} /\ byte_input.sizes # << >> =>
         {"questNo", "fileName", "size", "fileName2"} \subseteq Visited("writeFileHeaders")
    /\ byte_pc = "done" /\ byte_input.declared # << >> =>
         Visited("parseFiles") = {"chunkNo", "fileName", "size", "data"}
    /\ byte_pc = "done" /\ byte_input.sizes # << >> =>
         {"chunkNo", "fileName", "size", "data"} \subseteq Visited("writeFileChunk")

\* C24 witness: two headers and two chunk records were read, the names at
\* offsets 44 and 8
C24_Witness ==
    /\ byte_pc = "done"
    /\ Len(byte_input.declared) = 2
    /\ [function |-> "parseHeaders", field |-> "fileName", offset |-> 44, n |-> 16] \in accessed
    /\ [function |-> "parseFiles", field |-> "fileName", offset |-> 8, n |-> 16] \in accessed

\* two files were written, the names at offsets 44 and 8
C24_Witness_Written ==
    /\ byte_pc = "done"
    /\ Len(byte_input.sizes) = 2
    /\ [function |-> "writeFileHeaders", field |-> "fileName", offset |-> 44, n |-> 16] \in accessed
    /\ [function |-> "writeFileChunk", field |-> "fileName", offset |-> 8, n |-> 16] \in accessed


\* ---- C25
\* the run reads a buffer
ReadRun == byte_input.sizes = << >> /\ byte_pc # "idle"

\* how often a warning was logged
WarnCount(kind) == Cardinality({ i \in 1..Len(byte_warns) : byte_warns[i] = kind })

\* C25: every iteration of the loop of parseFiles consumes exactly 1056
\* bytes whatever size the record declares (a size above 1024 is clamped
\* to 1024 with a warning and at most 1024 bytes are copied), so the error
\* 'Read N file chunk message bytes instead of expected 1056' is never
\* raised; the loop ends after floor(bytes after the headers / 1056)
\* records and the fewer than 1056 bytes left are only warned about.
C25_ChunkLoop ==
    ReadRun =>
        /\ byte_pc # "threw"
        /\ (byte_pc = "parseFiles" /\ byte_ops = << >>) =>
              cursor_position = 2 * HeaderSize + byte_iter * ChunkRecordSize
        /\ \A a \in Fields({"parseFiles"}) :
              a.field = "data" =>
                  /\ a.n <= 1024
                  /\ \E k \in 1..Len(byte_input.declared) :
                        a.n = Min(byte_input.declared[k], 1024)
        /\ (byte_pc \in {"parseFiles", "done"} /\ byte_ops = << >>) =>
              WarnCount("clamped")
                 = Cardinality({ k \in 1..byte_iter : byte_input.declared[k] > 1024 })
        /\ byte_pc = "done" =>
              /\ byte_iter = (byte_input.total - 2 * HeaderSize) \div ChunkRecordSize
              /\ byte_input.total - cursor_position >= 0
              /\ byte_input.total - cursor_position < ChunkRecordSize
              /\ WarnCount("left") = (IF byte_input.total - cursor_position > 0 THEN 1 ELSE 0)

\* C25 witness: a record declaring 65536 bytes and one declaring 1 byte
\* were read, then 1055 bytes were left: one clamp warning, one warning
\* for the rest
C25_Witness ==
    /\ byte_pc = "done"
    /\ byte_input.declared = << U16Range, 1 >>
    /\ byte_input.total - cursor_position = ChunkRecordSize - 1
    /\ byte_iter = 2
    /\ byte_warns = << "clamped", "left" >>


\* ------------------------------------------------------------ the order writeQst emits in
\* ---- C26
\* the chunk records a file takes: one per 1024 bytes begun, and one for an
\* empty payload
NumChunks(f) == Max(1, CeilDiv(f.size, ChunkDataSize))

\* the chunk records emitted in the rounds before round r (0-based) of a
\* rotation over all files
RECURSIVE EmittedBefore(_, _)
EmittedBefore(fs, r) ==
    IF fs = << >> THEN 0 ELSE Min(NumChunks(Head(fs)), r) + EmittedBefore(Tail(fs), r)

\* the round the k-th chunk record of the rotation belongs to
RoundOf(k) ==
    CHOOSE r \in 0..(U8Range + 1) :
        EmittedBefore(params, r) < k /\ k <= EmittedBefore(params, r + 1)

\* the file the k-th chunk record of the rotation belongs to
FileOf(k) ==
    LET r     == RoundOf(k)
        alive == { i \in 1..Len(params) : NumChunks(params[i]) > r }
        j     == k - EmittedBefore(params, r)
    IN CHOOSE i \in alive : Cardinality({ a \in alive : a < i }) = j - 1

\* the payload blocks of chunk r of a file, zero-padded to a full chunk
PaddedCells(f, r) ==
    [c \in 1..CellsPerChunk |->
        IF r * CellsPerChunk + c - 1 < f.size \div Grain
        THEN DataCell(f.seed, r * CellsPerChunk + c - 1)
        ELSE 0]

\* the k-th chunk record of a round-robin emission, its index given
RotationRecord(k, index) ==
    LET f == params[FileOf(k)]
        r == RoundOf(k)
    IN [ no    |-> index,
         name  |-> write_string_ascii(f.name, NameFieldLen),
         cells |-> PaddedCells(f, r),
         size  |-> Min(ChunkDataSize, f.size - r * ChunkDataSize) ]

\* headers before chunks, in input order; the chunk record emitted last is
\* the one the rotation has at its place, its index drawn by indexOf; and
\* the emission ends when every file has emitted all its chunks
EmissionOrder(indexOf(_)) ==
    WriterRun =>
        /\ pc = "whdr" => out.chunks = << >>
        /\ out.chunks # << >> => Len(out.hdrs) = Len(params)
        /\ \A i \in 1..Len(out.hdrs) :
             /\ out.hdrs[i].name = write_string_ascii(params[i].name, NameFieldLen)
             /\ out.hdrs[i].size = params[i].size
        /\ LET k == Len(out.chunks)
           IN k > 0 => out.chunks[k] = RotationRecord(k, indexOf(RoundOf(k)))
        /\ pc \in {"wcheck", "wdone"} =>
             Len(out.chunks) = EmittedBefore(params, U8Range + 1)

\* the index of a chunk is its place in its file
IndexPlain(r) == r

\* the index of a chunk is its place in its file, as one byte holds it
IndexByte(r) == r % U8Range

\* C26: all file headers are written first, in input order, before any
\* chunk record; chunk records are then emitted round-robin in input-file
\* order, each file's chunks in ascending index starting at 0, a file
\* leaving the rotation only after its final chunk (zero-padded to 1024
\* payload bytes, its size field holding the true byte count) has been
\* emitted, until no file remains.
C26_EmissionOrder == EmissionOrder(IndexPlain)

\* the same with the index taken modulo 256
C26_EmissionOrderByteIndex == EmissionOrder(IndexByte)

\* a file of 257 chunks has been written in rotation with a short one
C26_Witness_Wrapped ==
    /\ pc = "wcheck"
    /\ Len(params) = 2
    /\ Len(out.chunks) = U8Range + 2
    /\ out.chunks[1].no = 0 /\ out.chunks[2].no = 0 /\ out.chunks[3].no = 1
    /\ out.chunks[U8Range + 2].no = 0

\* ---- C27
\* no two files written share a name
DistinctNames ==
    \A i, j \in 1..Len(params) : params[i].name = params[j].name => i = j

\* the chunk record emitted last carries its place in its file as its
\* index, and no earlier record of its file carries the same index
LastIndexIsPosition ==
    LET k == Len(out.chunks)
    IN k > 0 =>
         /\ out.chunks[k].no = RoundOf(k)
         /\ DistinctNames =>
              \A j \in 1..(k - 1) :
                  out.chunks[j].name = out.chunks[k].name => out.chunks[j].no # out.chunks[k].no

\* decoding what the encoder wrote has reported no duplicate chunk
NoDuplicateReported == (pc = "pdone" /\ DistinctNames) => WarningsOfKind("duplicate") = {}

\* C27: for every file the encoder accepts, the chunk indices it writes
\* into the one-byte chunk-index field are pairwise distinct and equal to
\* the chunk's position in the payload (byte offset / 1024), for every
\* payload size including payloads of more than 256 chunks; decoding what
\* the encoder wrote never reports a duplicate chunk.
C27_IndexIsPosition == WriterRun => (LastIndexIsPosition /\ NoDuplicateReported)

\* the part of C27 about decoding
C27_NoDuplicateReported == WriterRun => NoDuplicateReported

\* the part of C27 that holds: payloads of at most 256 chunks
C27_IndexIsPositionUpTo256 ==
    (WriterRun /\ \A i \in 1..Len(params) : NumChunks(params[i]) <= U8Range) =>
        (LastIndexIsPosition /\ NoDuplicateReported)


\* ------------------------------------------------------------ what the NPC encoder leaves alone
\* ---- C28
\* the float32 bits of a number without bit 0x800000
OtherBits(bits) == <<bits % RegularBit, bits \div (2 * RegularBit)>>

\* bit 0x800000 of the float32 bits of a number
BitOf(bits) == (bits \div RegularBit) % 2

\* the identities whose regular flag is false in the inverse mapping
FlaggedAlternate ==
    { "BarbarousWolf", "BarbarousWolf2", "PouillySlime", "SinowGold", "Yowie", "Kondrieu" }

\* C28: encoding an NPC whose identity is Unknown writes back the raw type
\* code (pso_type_id) and the roaming value stored with it; for every NPC
\* the encoder leaves area id, script label and the remaining fields
\* (position, rotation, scale.x, scale.z, section id, npc id, unknown
\* arrays) as they are and changes scale.y in bit 0x800000 only, which is
\* cleared when the regular flag of the identity is true (as it is for
\* Unknown) and set when it is false.
C28_EncoderFrame ==
    npc_pc = "encoded" =>
        /\ quest_npc.type = "Unknown" =>
             /\ dat_npc.type_id = quest_npc.pso_type_id
             /\ dat_npc.roaming = quest_npc.roaming
        /\ dat_npc.area_id = quest_npc.area_id
        /\ dat_npc.script_label_x2 = 2 * quest_npc.script_label
        /\ dat_npc.rest = quest_npc.rest
        /\ OtherBits(dat_npc.scale_y) = OtherBits(quest_npc.scale_y)
        /\ BitOf(dat_npc.scale_y) = (IF quest_npc.type \in FlaggedAlternate THEN 1 ELSE 0)

\* C28 witness: an Unknown NPC with raw type code 0x044, roaming 1 and
\* scale.y 1.0 was encoded with that code and roaming and scale.y 0.5
C28_Witness ==
    /\ npc_pc = "encoded"
    /\ quest_npc.type = "Unknown"
    /\ quest_npc.pso_type_id = 68
    /\ quest_npc.roaming = 1
    /\ quest_npc.scale_y = F32One
    /\ dat_npc.scale_y = F32One - RegularBit
    /\ dat_npc.type_id = 68
    /\ dat_npc.roaming = 1

\* an identity flagged alternate with scale.y 0.0 was encoded with the bit set
C28_Witness_Alternate ==
    /\ npc_pc = "encoded"
    /\ quest_npc.type = "Yowie"
    /\ quest_npc.scale_y = 0
    /\ dat_npc.scale_y = RegularBit

\* ------------------------------------------------------------ observable quest entities
\* the sections an entity is put in: at the origin, moved, turned by a
\* quarter and by a half turn, and one that differs from another in its id
\* only
Section(id, position, sin, cos) ==
    [id |-> id, position |-> position, sin_y_axis_rotation |-> sin, cos_y_axis_rotation |-> cos]

Sections ==
    { Section(0, <<0, 0, 0>>, 0, 1), Section(1, <<10, 5, 0>>, 0, 1), Section(2, <<0, 0, 0>>, 1, 0),
      Section(3, <<10, 0, -10>>, 0, -1), Section(4, <<10, 5, 0>>, 0, 1) }

\* the positions given to the entity
WorldPositions == { <<0, 0, 0>>, <<5, 1, 0>>, <<3, 0, -4>>, <<-2, 3, 7>>, <<10, 5, 0>> }

\* get world_position
world_position(e) ==
    IF e.section # NoSection
    THEN LET rel_x == e.position[1]
             rel_y == e.position[2]
             rel_z == e.position[3]
             sin   == -e.section.sin_y_axis_rotation
             cos   == e.section.cos_y_axis_rotation
             rot_x == cos * rel_x - sin * rel_z
             rot_z == sin * rel_x + cos * rel_z
         IN << rot_x + e.section.position[1], rel_y + e.section.position[2],
               rot_z + e.section.position[3] >>
    ELSE e.position

\* set world_position: the section-relative position stored for a world
\* position
set_world_position(e, pos) ==
    IF e.section # NoSection
    THEN LET rel_x == pos[1] - e.section.position[1]
             rel_y == pos[2] - e.section.position[2]
             rel_z == pos[3] - e.section.position[3]
             sin   == -e.section.sin_y_axis_rotation
             cos   == e.section.cos_y_axis_rotation
             rot_x == cos * rel_x + sin * rel_z
             rot_z == -sin * rel_x + cos * rel_z
         IN [e EXCEPT !.position = << rot_x, rel_y, rot_z >>]
    ELSE [e EXCEPT !.position = pos]

\* set_world_position_and_section: this.world_position = world_position,
\* then this.section = section
set_world_position_and_section(e, pos, section) ==
    [set_world_position(e, pos) EXCEPT !.section = section]

LastCall(op, pos, section) == [op |-> op, world_position |-> pos, section |-> section]

SetWorldPositionAndSection ==
    /\ last_call.op # "idle"
    /\ \E pos \in WorldPositions, section \in Sections \cup {NoSection} :
         /\ entity' = set_world_position_and_section(entity, pos, section)
         /\ last_call' = LastCall("set_world_position_and_section", pos, section)
    /\ UNCHANGED outsideEntity

SetWorldPosition ==
    /\ last_call.op # "idle"
    /\ \E pos \in WorldPositions :
         /\ entity' = set_world_position(entity, pos)
         /\ last_call' = LastCall("world_position", pos, entity.section)
    /\ UNCHANGED outsideEntity

\* the entity as its constructor leaves it: a position, no section
InitEntity ==
    /\ ContainerIdle
    /\ QuestIdle
    /\ NpcIdle
    /\ AsmIdle
    /\ BytesIdle
    /\ ComponentsIdle
    /\ \E pos \in WorldPositions :
         /\ entity = [section |-> NoSection, position |-> pos]
         /\ last_call = LastCall("new", pos, NoSection)

NextEntity ==
    \/ SetWorldPositionAndSection
    \/ SetWorldPosition

SpecEntity == InitEntity /\ [][NextEntity]_vars

\* ---- C29
\* C29: after set_world_position_and_section(p, s) the section of the
\* entity is s and its world_position is p, for every previous section
\* (none included) and every new section s (none included); and reading
\* world_position after assigning world_position = p gives p.
C29_WorldPosition ==
    /\ last_call.op = "set_world_position_and_section" =>
         /\ entity.section = last_call.section
         /\ world_position(entity) = last_call.world_position
    /\ last_call.op = "world_position" =>
         /\ entity.section = last_call.section
         /\ world_position(entity) = last_call.world_position

\* the parts of C29 that hold: the section is the one given, and the
\* world position is the one given when it was assigned alone
C29_SectionAndSetter ==
    /\ last_call.op = "set_world_position_and_section" => entity.section = last_call.section
    /\ last_call.op = "world_position" =>
         /\ entity.section = last_call.section
         /\ world_position(entity) = last_call.world_position

\* an entity in a section was given a world position and another section
\* and is somewhere else
C29_Witness_Moved ==
    /\ last_call.op = "set_world_position_and_section"
    /\ last_call.section = Section(0, <<0, 0, 0>>, 0, 1)
    /\ last_call.world_position = <<5, 1, 0>>
    /\ world_position(entity) = <<-5, -4, 0>>


\* ------------------------------------------------------------ QuestEditorComponent
\* the largest number of QuestEditorComponents mounted in a run
MaxMounts == 2

\* a component React has constructed and mounted: its ref is attached,
\* componentDidMount has set its timer, this.layout is undefined (0)
MountedComponent ==
    [phase |-> "mounted", timer |-> "scheduled", current |-> TRUE, layout |-> 0, persisted |-> FALSE]

\* a GoldenLayout instance: the component that made it, the config it was
\* made with, whether init() went through, whether destroy() was called
Layout(owner, config, initialised) ==
    [owner |-> owner, config |-> config, initialised |-> initialised, destroyed |-> FALSE]

\* componentDidMount of a component React mounts
ComponentDidMount ==
    /\ Len(components) < MaxMounts
    /\ components' = Append(components, MountedComponent)
    /\ UNCHANGED layouts
    /\ UNCHANGED outsideComponents

\* the callback given to setTimeout, up to its await
TimerCallback ==
    \E c \in 1..Len(components) :
        /\ components[c].timer = "scheduled"
        /\ components' = [components EXCEPT ![c].timer =
                             IF components[c].current /\ components[c].layout = 0
                             THEN "awaiting" ELSE "done"]
        /\ UNCHANGED layouts
        /\ UNCHANGED outsideComponents

\* the callback from its await on: new GoldenLayout with the config
\* loaded, with the default config if that throws, and init(); each
\* constructor either returns an instance or throws
LayoutConfigLoaded ==
    \E c \in 1..Len(components) :
        /\ components[c].timer = "awaiting"
        /\ \E made \in {"persisted", "default", "none"}, initialised \in BOOLEAN :
             IF made = "none"
             THEN /\ initialised
                  /\ components' = [components EXCEPT ![c].timer = "done"]
                  /\ UNCHANGED layouts
             ELSE /\ layouts' = Append(layouts, Layout(c, made, initialised))
                  /\ components' = [components EXCEPT ![c].timer = "done",
                                                      ![c].layout = Len(layouts) + 1]
        /\ UNCHANGED outsideComponents

\* the handler of stateChanged of a layout that is in use
LayoutStateChanged ==
    \E i \in 1..Len(layouts) :
        /\ layouts[i].initialised
        /\ ~layouts[i].destroyed
        /\ components' = [components EXCEPT ![layouts[i].owner].persisted =
                             @ \/ components[layouts[i].owner].layout # 0]
        /\ UNCHANGED layouts
        /\ UNCHANGED outsideComponents

\* componentWillUnmount, and React detaching the ref of the component
ComponentWillUnmount ==
    \E c \in 1..Len(components) :
        /\ components[c].phase = "mounted"
        /\ layouts' = IF components[c].layout # 0
                      THEN [layouts EXCEPT ![components[c].layout].destroyed = TRUE]
                      ELSE layouts
        /\ components' = [components EXCEPT ![c].phase = "unmounted",
                                            ![c].current = FALSE,
                                            ![c].layout = 0]
        /\ UNCHANGED outsideComponents

InitComponents ==
    /\ ContainerIdle
    /\ QuestIdle
    /\ NpcIdle
    /\ AsmIdle
    /\ BytesIdle
    /\ EntityIdle
    /\ components = << >>
    /\ layouts = << >>

NextComponents ==
    \/ ComponentDidMount
    \/ TimerCallback
    \/ LayoutConfigLoaded
    \/ LayoutStateChanged
    \/ ComponentWillUnmount

SpecComponents == InitComponents /\ [][NextComponents]_vars

\* ---- C30
\* the layouts a component has created
LayoutsOf(c) == { i \in 1..Len(layouts) : layouts[i].owner = c }

\* at most one GoldenLayout instance is created per mount
AtMostOneLayout == \A c \in 1..Len(components) : Cardinality(LayoutsOf(c)) <= 1

\* once componentWillUnmount has run, every layout of the component has
\* been destroyed
NoLayoutAfterUnmount ==
    \A c \in 1..Len(components) :
        components[c].phase = "unmounted" => \A i \in LayoutsOf(c) : layouts[i].destroyed

\* C30: for every interleaving of componentWillUnmount with the timer
\* callback and its await, at most one GoldenLayout instance is created
\* per mount and, once componentWillUnmount has run, no layout instance
\* exists or is created later without being destroyed.
C30_LayoutLifecycle == AtMostOneLayout /\ NoLayoutAfterUnmount

\* the part of C30 that holds
C30_AtMostOneLayout == AtMostOneLayout

\* a component was unmounted while its callback awaited the config; the
\* callback then made a layout, set this.layout and called init()
C30_Witness_Leaked ==
    /\ Len(components) >= 1
    /\ components[1].phase = "unmounted"
    /\ components[1].timer = "done"
    /\ components[1].layout # 0
    /\ ~layouts[components[1].layout].destroyed


====
